---- MODULE Spec2Model ----
(***************************************************************************)
(* Model of the cross-process reentrant file-lock layer of the vendored    *)
(* virtualenv (util/lock.py) and of its users in app_data.                 *)
(*                                                                         *)
(* Two OS processes run threads.  Every process has its own module-level   *)
(* registry _lock_store guarded by _store_lock; every _CountedFileLock     *)
(* object (a "handle") has a count and an RLock thread_safe; the OS file   *)
(* lock of a lock-file path is held by at most one handle (one open file   *)
(* description) at a time.                                                 *)
(*                                                                         *)
(* Further specifications over the same variables cover waiting callers    *)
(* under fairness, NoOpFileLock, the lock objects of one folder by the     *)
(* name the folder is written with, one entry of a JSONStoreDisk          *)
(* (app_data/via_disk_folder.py) with its backing file, the scopes of      *)
(* non_reentrant_lock_for_key, a counter kept under locked(), extract(),   *)
(* the calls on an AppDataDiskFolder or TempAppData (via_tempdir.py), and  *)
(* the upload task of the distutils plugin as its unit tests have it.      *)
(***************************************************************************)
EXTENDS Integers, Sequences, FiniteSets, TLC

\* ------------------------------------------------------------- bounds
NThreads == 3
MainThreads == 2
NPaths == 1
MaxDepth == 2
MaxHandles == 2
MaxCount == 3
NObjects == 2
NKeys == 2
MaxKeys == 2
MaxCalls == 2
MaxArtifacts == 3
MaxStart == 1
MaxSize == 2
MaxFile == 3

\* ------------------------------------------------------------- universe
Threads == 1..NThreads
Procs == {1, 2}
Paths == 1..NPaths
\* The lock file `.lock` of the py_info folder itself, next to the lock
\* files `<key>.lock` of the keys, and all lock files there are.
FolderPath == NPaths + 1
LockPaths == Paths \cup {FolderPath}
Handles == 1..MaxHandles

\* Threads 1..MainThreads run in process 1, the others in process 2.
Proc(t) == IF t <= MainThreads THEN 1 ELSE 2
ThreadsOf(p) == {t \in Threads : Proc(t) = p}
\* Thread 1 nests scopes up to MaxDepth; the other threads open one at a time.
Depth(t) == IF t = 1 THEN MaxDepth ELSE 1

\* Python's None, as the value of a lock reference / a free mutex.
NoLock == 0
NoThread == 0

VARIABLES
    lock_store,   \* _lock_store of each process: path -> handle or NoLock
    store_lock,   \* _store_lock of each process: the thread holding it
    count,        \* _CountedFileLock.count of each handle of each process
    lock_file,    \* _CountedFileLock.lock_file: the path of each handle
    thread_safe,  \* _CountedFileLock.thread_safe: the thread holding the RLock
    os_lock,      \* the OS file lock of each path: <<process, handle>> or <<>>
    self_lock,    \* ReentrantFileLock._lock of the lock object each thread owns per folder
    pc,           \* control point of each thread
    stack,        \* open scopes of each thread, innermost last
    exc,          \* exception propagating in (or last raised to) each thread
    released,     \* history: a release() has run in the process on a handle of the path
    last,         \* history: the last direct call on a handle (SpecHandle)
    \* lock objects of one folder, by the way the folder is written (SpecPath)
    folder_exists,  \* the folder is on disk
    parent_path,    \* PathLockBase.path of the lock object of the parent folder
    path,           \* PathLockBase.path of each lock object of the folder
    named_store,    \* _lock_store, by lock-file name
    named_count,    \* _CountedFileLock.count of each handle
    named_file,     \* _CountedFileLock.lock_file of each handle
    file_lock,      \* the OS file lock of each lock file on disk: the handle or NoLock
    scopes,         \* open lock_for_key scopes of the thread, innermost last
    at,             \* control point of the thread
    \* one entry of a JSONStoreDisk (SpecJSON, SpecStore, SpecOverwrite)
    file,           \* the backing file <key>.json on disk
    doing,          \* control point of each thread inside read() / write()
    writing,        \* write(content): the content of the call under way
    result,         \* history: what the last finished call of each thread did
    \* the cache folder of an AppDataDiskFolder (SpecExtractTwice and later)
    dest,           \* the destination of each archive under the unzip root, on disk
    extracted,      \* history: how many times the extraction routine has started
    yielded,        \* history: what each finished extract() call of each thread yielded
    step,           \* control point of each thread inside extract()
    app,            \* the class of the app-data object
    cache,          \* the backing file of each store entry under the cache root
    held,           \* the count of the handle of each lock file of the py_info folder
    clear,          \* control point inside py_info_clear(), and the files still to visit
    outcome,        \* history: what the last finished call on the app data did
    \* the upload task of the distutils plugin (SpecUpload)
    artifacts,      \* the files of the distribution folder, in the order os.walk gives them
    register,       \* the property distutils_upload_register
    uploading,      \* control point of the task, and the number of artifacts gone through
    runs,           \* history: the twine processes run, in order
    \* FileView objects over one file object (SpecView)
    content,        \* the bytes of the file
    position,       \* the position of the file object
    view,           \* _start, _end and _pos of each FileView
    returned        \* history: what the last call on a view did and returned

lockVars == <<lock_store, store_lock, count, lock_file, thread_safe, os_lock,
              self_lock, pc, stack, exc, released, last>>
pathVars == <<folder_exists, parent_path, path, named_store, named_count,
              named_file, file_lock, scopes, at>>

storeVars == <<file, doing, writing, result>>
appVars == <<dest, extracted, yielded, step, app, cache, held, clear, outcome>>

uploadVars == <<artifacts, register, uploading, runs>>

viewVars == <<content, position, view, returned>>

vars == <<lockVars, pathVars, storeVars, appVars, uploadVars, viewVars>>

\* What the steps of the lock layer model leave alone.
beyondLock == <<pathVars, storeVars, appVars, uploadVars, viewVars>>
\* What the steps of the path model leave alone.
beyondPath == <<lockVars, storeVars, appVars, uploadVars, viewVars>>
\* What the steps of the content store leave alone.
beyondStore == <<lockVars, pathVars, appVars, uploadVars, viewVars>>
\* What the steps of the cache folder leave alone.
beyondApp == <<lockVars, pathVars, storeVars, uploadVars, viewVars>>
\* What the upload task leaves alone.
beyondUpload == <<lockVars, pathVars, storeVars, appVars, viewVars>>
\* What the calls on a FileView leave alone.
beyondView == <<lockVars, pathVars, storeVars, appVars, uploadVars>>
\* What extract() leaves alone of the cache folder.
cacheVars == <<app, cache, held, clear, outcome>>

Free == <<>>

Max(a, b) == IF a >= b THEN a ELSE b

\* ------------------------------------------------------------- handles
Top(t) == stack[t][Len(stack[t])]

\* The handle a scope works on: lock_for_key keeps it in the local `lock`,
\* the whole-directory scope reads self._lock each time.
FrameLock(t, f) == IF f.kind = "with" THEN self_lock[t][f.path] ELSE f.lock
TopLock(t) == FrameLock(t, Top(t))

\* Handles some reference of process p still reaches (registry, a local
\* variable of an open scope, a _lock field).
Referenced(p) ==
    {lock_store[p][k] : k \in LockPaths}
    \cup UNION {{stack[t][i].lock : i \in 1..Len(stack[t])} : t \in ThreadsOf(p)}
    \cup {self_lock[t][k] : t \in ThreadsOf(p), k \in LockPaths}

\* Identities a new object can get: no reference reaches them and no dead
\* object still keeps the OS lock under them.
FreeHandles(p) == {h \in Handles \ Referenced(p) : count[p][h] = 0}
NewHandle(p) == CHOOSE h \in FreeHandles(p) : \A g \in FreeHandles(p) : h <= g

\* ------------------------------------------------------------- FileLock
\* The OS-level exclusive lock of the base class FileLock: one holder per
\* lock file; acquiring is possible when nobody (or this handle) holds it.
FileLockFree(p, h) == os_lock[lock_file[p][h]] \in {Free, <<p, h>>}
FileLockAcquired(p, h) == [os_lock EXCEPT ![lock_file[p][h]] = <<p, h>>]
FileLockReleased(p, h) ==
    [os_lock EXCEPT ![lock_file[p][h]] = IF @ = <<p, h>> THEN Free ELSE @]
IsLocked(p, h) == os_lock[lock_file[p][h]] = <<p, h>>

\* ------------------------------------------------------------- _CountedFileLock
\* acquire: `if self.count == 0: super().acquire(...)`
AcquiresOS(c) == c = 0

\* Faulty variant: the OS lock is given up by every release of a held handle.
ReleasesOS_AtAnyCount(c, force) == c >= 1
\* Faulty variant: the OS lock is never given back.
ReleasesOS_Never(c, force) == FALSE
\* release: `if self.count == 1: super().release(force=force)`
ReleasesOS(c, force) == c = 1

\* Faulty variant: the count is not floored at 0.
CountAfterRelease_NoFloor(c) == c - 1
\* release: `self.count = max(self.count - 1, 0)`
CountAfterRelease(c) == Max(c - 1, 0)

\* acquire(timeout) returning normally, run in one piece under thread_safe:
\* either the count is positive and only grows, or the OS lock is free.
\* (The model stops counting at MaxCount.)
AcquireNow(p, h) ==
    /\ thread_safe[p][h] = NoThread
    /\ count[p][h] < MaxCount
    /\ IF AcquiresOS(count[p][h])
          THEN /\ FileLockFree(p, h)
               /\ os_lock' = FileLockAcquired(p, h)
          ELSE UNCHANGED os_lock
    /\ count' = [count EXCEPT ![p][h] = @ + 1]

\* acquire(0.0001) raising Timeout: the OS lock is needed and somebody
\* else holds it; the count stays as it is.
AcquireTimesOut(p, h) ==
    /\ thread_safe[p][h] = NoThread
    /\ AcquiresOS(count[p][h])
    /\ ~FileLockFree(p, h)

\* release(force), run in one piece under thread_safe.
Release(p, h, force) ==
    /\ thread_safe[p][h] = NoThread
    /\ os_lock' = IF ReleasesOS(count[p][h], force)
                     THEN FileLockReleased(p, h)
                     ELSE os_lock
    /\ count' = [count EXCEPT ![p][h] = CountAfterRelease(@)]
    /\ released' = [released EXCEPT ![p][lock_file[p][h]] = TRUE]

\* ------------------------------------------------------------- finalizer
\* The handles of process p that the step under way leaves without any
\* reference.  The object is finalized at once: FileLock.__del__ calls
\* release(force=True), which is _CountedFileLock.release.
Dropped(p) == (Referenced(p) \ Referenced(p)') \ {NoLock}
FinalCount(D, c) ==
    [h \in Handles |-> IF h \in D THEN CountAfterRelease(c[h]) ELSE c[h]]
FinalOS(p, D, c) ==
    [k \in LockPaths |->
        IF /\ os_lock[k] # Free
           /\ os_lock[k][1] = p
           /\ os_lock[k][2] \in D
           /\ ReleasesOS(c[os_lock[k][2]], TRUE)
           THEN Free
           ELSE os_lock[k]]

\* ------------------------------------------------------------- registry
\* Faulty variant: the registry is not consulted, every call makes an object.
CreateReuses_Never(p, k) == FALSE
\* _create_lock: `if lock_file not in _lock_store`
CreateReuses(p, k) == lock_store[p][k] # NoLock
CreatedLock(p, k) == IF CreateReuses(p, k) THEN lock_store[p][k] ELSE NewHandle(p)
\* _CountedFileLock.__init__: `self.count = 0`
CreatedCount(p, k) ==
    IF CreateReuses(p, k) THEN count[p] ELSE [count[p] EXCEPT ![NewHandle(p)] = 0]

\* _create_lock(name), run in one piece under _store_lock; the count of a
\* new object is CreatedCount.
CreateLock(p, k) ==
    /\ store_lock[p] = NoThread
    /\ IF CreateReuses(p, k)
          THEN UNCHANGED <<lock_store, lock_file, thread_safe>>
          ELSE /\ FreeHandles(p) # {}
               /\ lock_store' = [lock_store EXCEPT ![p][k] = NewHandle(p)]
               /\ lock_file' = [lock_file EXCEPT ![p][NewHandle(p)] = k]
               /\ thread_safe' = [thread_safe EXCEPT ![p][NewHandle(p)] = NoThread]

\* Faulty variant: _del_lock never removes the entry.
DelLockPops_Never(c) == FALSE
\* _del_lock: `if lock.count == 0: _lock_store.pop(lock.lock_file, None)`
DelLockPops(c) == c = 0
StoreAfterDel(p, h) ==
    IF DelLockPops(count[p][h])
       THEN [lock_store EXCEPT ![p][lock_file[p][h]] = NoLock]
       ELSE lock_store

\* ------------------------------------------------------------- scopes
Frame(kind, k, h, nb) == [kind |-> kind, path |-> k, lock |-> h, no_block |-> nb]
Push(t, f) == [stack EXCEPT ![t] = Append(@, f)]
Pop(t) == [stack EXCEPT ![t] = SubSeq(@, 1, Len(@) - 1)]
\* Where a thread continues once its innermost scope is gone.
AfterPop(t) == IF Len(stack[t]) = 1 THEN "idle" ELSE "body"

\* What the history variable keeps of a direct call by thread t on handle h:
\* the call, the handle, and the handle's count and OS lock before the call.
Call(op, t, h, force) ==
    [op |-> op, t |-> t, h |-> h, force |-> force,
     before |-> IF h = NoLock THEN 0 ELSE count[Proc(t)][h],
     held |-> IF h = NoLock THEN FALSE ELSE IsLocked(Proc(t), h)]

\* The no_block argument is read by _lock_file's first try only.
Tried(t) == [stack EXCEPT ![t][Len(stack[t])].no_block = FALSE]

CanOpen(t) ==
    /\ pc[t] \in {"idle", "body"}
    /\ pc[t] = "body" => exc[t] = "none"
    /\ Len(stack[t]) < Depth(t)

\* ------------------------------------------------------------- folder names
\* The lock objects of one folder, seen from one thread of one process.
\* A caller writes the folder in one of two ways: by the name that
\* Path.resolve() returns (absolute, free of symbolic links), or by another
\* name of the same folder (relative, or through a symbolic link).
Names == {"resolved", "as_given"}
Unset == "unset"
Objects == 1..NObjects
Keys == 1..NKeys

\* Path.resolve()
Resolve(name) == "resolved"
\* PathLockBase.__init__: `self.path = path.resolve() if path.exists() else path`
PathOf(name) == IF folder_exists THEN Resolve(name) ELSE name

\* _create_lock: `lock_file = str(self.path / f"{name}.lock")`
LockFileNames == Names \X Keys
LockFileName(o, k) == <<path[o], k>>
\* The file on disk that a lock-file name denotes.
FileOf(lf) == lf[2]

\* No lock object of the folder has been made.
NoFolder ==
    /\ folder_exists = FALSE
    /\ parent_path = "resolved"
    /\ path = [o \in Objects |-> Unset]
    /\ named_store = [lf \in LockFileNames |-> NoLock]
    /\ named_count = [h \in Handles |-> 0]
    /\ named_file = [h \in Handles |-> <<"resolved", 1>>]
    /\ file_lock = [k \in Keys |-> NoLock]
    /\ scopes = <<>>
    /\ at = "idle"

\* ------------------------------------------------------------- JSON
\* Python values, as <<type, literal>>; a mapping is the sequence of its
\* <<key, value>> items in insertion order, the keys distinct.
PyStr(s) == <<"str", s>>
PyInt(s) == <<"int", s>>
PyList(s) == <<"list", s>>
PyTuple(s) == <<"tuple", s>>
DocKeys == {PyStr("a"), PyStr("b"), PyInt("1")}
DocValues == {PyStr("v"), PyList("1"), PyTuple("1")}
Docs ==
    UNION {{d \in [1..n -> DocKeys \X DocValues] :
               \A i, j \in 1..n : i # j => d[i][1] # d[j][1]} : n \in 0..MaxKeys}

Items(doc) == {doc[i] : i \in 1..Len(doc)}
\* dict.__eq__: the same keys with equal values, in any order.
DictEq(a, b) == Items(a) = Items(b)

\* The order sorted() puts keys of one type in.
KeyOrder == <<"1", "a", "b">>
Rank(k) == CHOOSE i \in 1..Len(KeyOrder) : KeyOrder[i] = k[2]
\* json.dumps(sort_keys=True) sorts the items by their keys as they are:
\* keys of different types do not compare, sorted() raises TypeError.
Sortable(doc) == \A i, j \in 1..Len(doc) : doc[i][1][1] = doc[j][1][1]
\* Faulty variant: the items are written in insertion order.
SortKeys_AsInserted(doc) == doc
\* `sort_keys=True`
SortKeys(doc) ==
    CHOOSE s \in [1..Len(doc) -> Items(doc)] :
        \A i, j \in 1..Len(doc) : i < j => Rank(s[i][1]) < Rank(s[j][1])

\* JSON text of a key: always a string, an int key by its decimal digits.
KeyText(k) == k[2]
\* JSON text of a value: a string, a number, or an array for list and tuple.
ValueText(v) ==
    CASE v[1] = "str" -> <<"string", v[2]>>
      [] v[1] = "int" -> <<"number", v[2]>>
      [] v[1] \in {"list", "tuple"} -> <<"array", v[2]>>
\* json.dumps(content, sort_keys=True, indent=2): the text, item by item.
Dumps(doc) ==
    [i \in 1..Len(doc) |-> <<KeyText(SortKeys(doc)[i][1]), ValueText(SortKeys(doc)[i][2])>>]

\* json.loads: a JSON string is a str, a number an int, an array a list.
ParsedValue(x) ==
    CASE x[1] = "string" -> PyStr(x[2])
      [] x[1] = "number" -> PyInt(x[2])
      [] x[1] = "array" -> PyList(x[2])
Loads(text) == [i \in 1..Len(text) |-> <<PyStr(text[i][1]), ParsedValue(text[i][2])>>]

\* ------------------------------------------------------------- backing file
\* The backing file: absent; holding a JSON text; empty (zero bytes);
\* garbled (bytes that are no JSON text); or present and not readable by
\* this user.
Absent == [kind |-> "absent", text |-> <<>>]
Empty == [kind |-> "empty", text |-> <<>>]
Garbled == [kind |-> "garbled", text |-> <<>>]
Unreadable == [kind |-> "unreadable", text |-> <<>>]
JsonFile(text) == [kind |-> "json", text |-> text]

\* What a finished call did: its name, how it ended (a value, None, a
\* truth value, an exception), the document it took or returned, and the
\* text it left in the file.
Result(op, kind, doc, text) == [op |-> op, kind |-> kind, doc |-> doc, text |-> text]
NoResult == Result("none", "none", <<>>, <<>>)

\* No call on the entry has been made.
NoStore ==
    /\ file = Absent
    /\ doing = [t \in Threads |-> "idle"]
    /\ writing = [t \in Threads |-> <<>>]
    /\ result = [t \in Threads |-> NoResult]

\* extract(path, to_folder): to_folder is None, or a function returning the
\* folder written in one of the two ways.
Default == "default"
\* Where a thread is inside extract(), and the arguments of the call.
InCall(where, to_folder, archive) ==
    [at |-> where, to_folder |-> to_folder, archive |-> archive]
NoCall == InCall("idle", Default, 1)

\* The two app-data classes and their class attributes.
AppClasses == {"AppDataDiskFolder", "TempAppData"}
Transient(cls) == cls = "TempAppData"
CanUpdate(cls) == cls = "AppDataDiskFolder"

\* Faulty variant: every interpreter path gets the same key.
Sha256_Constant(p) == <<"sha256", 1>>
\* PyInfoStoreDisk: `key = sha256(str(path).encode("utf-8")).hexdigest()`,
\* a digest that differs for different texts.
Sha256(p) == <<"sha256", p>>

\* The interpreter paths and the distributions that get entries, by number,
\* and the entries: a folder under the cache root and the stem of the file
\* name.
InterpreterPaths == 1..NKeys
Distributions == {1}
PyInfoEntry(p) == <<"py_info", Sha256(p)>>
EmbedEntry(d) == <<"embed", <<"name", d>>>>
Entries ==
    {PyInfoEntry(p) : p \in InterpreterPaths} \cup {EmbedEntry(d) : d \in Distributions}
\* The lock files of the py_info folder: `.lock` of the folder itself and
\* `<key>.lock` of each entry.
FolderLock == <<"py_info", <<"", 0>>>>
LockFiles == {FolderLock} \cup {PyInfoEntry(p) : p \in InterpreterPaths}

\* What a finished call did: its name, the entry it was about, how it
\* ended and the document it took or returned.
Outcome(op, entry, kind, doc) == [op |-> op, entry |-> entry, kind |-> kind, doc |-> doc]
NoOutcome == Outcome("none", FolderLock, "none", <<>>)
NotClearing == [at |-> "idle", todo |-> {}]

\* A cache nobody has used: no entry, no lock.
NoCache ==
    /\ cache = [e \in Entries |-> Absent]
    /\ held = [l \in LockFiles |-> 0]
    /\ clear = NotClearing
    /\ outcome = NoOutcome

\* No archive has been extracted and no extract() call made.
NoAppData ==
    /\ dest = [k \in Keys |-> "absent"]
    /\ extracted = [k \in Keys |-> 0]
    /\ yielded = [t \in Threads |-> <<>>]
    /\ step = [t \in Threads |-> NoCall]
    /\ app = "AppDataDiskFolder"
    /\ NoCache

\* The views of the file, and one view: its window and its position.
Views == {1, 2}
FileView(start, size) == [start |-> start, end |-> start + size, pos |-> 0]
\* What a call on a view did: the call, the view, the exception it raised
\* and the bytes it returned.
Returned(op, v, raised, data) == [op |-> op, v |-> v, raised |-> raised, data |-> data]

\* No file has been opened.
NoView ==
    /\ content = <<>>
    /\ position = 0
    /\ view = [v \in Views |-> FileView(0, 0)]
    /\ returned = Returned("none", 1, "none", <<>>)

\* Where the upload task is.
UploadAt(where, n) == [at |-> where, n |-> n]

\* The upload task has not been started.
NoUpload ==
    /\ artifacts = <<>>
    /\ register = FALSE
    /\ uploading = UploadAt("idle", 0)
    /\ runs = <<>>

InitLock ==
    /\ lock_store = [p \in Procs |-> [k \in LockPaths |-> NoLock]]
    /\ store_lock = [p \in Procs |-> NoThread]
    /\ count = [p \in Procs |-> [h \in Handles |-> 0]]
    /\ lock_file = [p \in Procs |-> [h \in Handles |-> 1]]
    /\ thread_safe = [p \in Procs |-> [h \in Handles |-> NoThread]]
    /\ os_lock = [k \in LockPaths |-> Free]
    /\ self_lock = [t \in Threads |-> [k \in LockPaths |-> NoLock]]
    /\ pc = [t \in Threads |-> "idle"]
    /\ stack = [t \in Threads |-> <<>>]
    /\ exc = [t \in Threads |-> "none"]
    /\ released = [p \in Procs |-> [k \in LockPaths |-> FALSE]]
    /\ last = Call("none", NoThread, NoLock, FALSE)

Init == InitLock /\ NoFolder /\ NoStore /\ NoAppData /\ NoUpload /\ NoView

\* lock_for_key(name, no_block) up to `lock = self._create_lock(name)`.
LockForKey(t, k, nb) ==
    /\ CanOpen(t)
    /\ CreateLock(Proc(t), k)
    /\ count' = [count EXCEPT ![Proc(t)] = CreatedCount(Proc(t), k)]
    /\ stack' = Push(t, Frame("key", k, CreatedLock(Proc(t), k), nb))
    /\ pc' = [pc EXCEPT ![t] = "lock_file"]
    /\ exc' = [exc EXCEPT ![t] = "none"]
    /\ UNCHANGED <<store_lock, os_lock, self_lock, released, last>>
    /\ UNCHANGED beyondLock

\* AppDataDiskFolder.locked(path): `with self.lock / path:` on a lock object
\* made for this one scope; __enter__ up to `self._lock = self._create_lock()`.
\* The object's _lock field lives and dies with the scope, like the local
\* `lock` of lock_for_key, and __enter__/__exit__ make the same calls.
Locked(t, k) ==
    /\ CanOpen(t)
    /\ CreateLock(Proc(t), k)
    /\ count' = [count EXCEPT ![Proc(t)] = CreatedCount(Proc(t), k)]
    /\ stack' = Push(t, Frame("key", k, CreatedLock(Proc(t), k), FALSE))
    /\ pc' = [pc EXCEPT ![t] = "lock_file"]
    /\ exc' = [exc EXCEPT ![t] = "none"]
    /\ UNCHANGED <<store_lock, os_lock, self_lock, released, last>>
    /\ UNCHANGED beyondLock

\* `with lock:` on the lock object the thread keeps for the folder;
\* __enter__ up to `self._lock = self._create_lock()`.
Enter(t, k) ==
    /\ CanOpen(t)
    /\ CreateLock(Proc(t), k)
    /\ self_lock' = [self_lock EXCEPT ![t][k] = CreatedLock(Proc(t), k)]
    /\ stack' = Push(t, Frame("with", k, NoLock, FALSE))
    /\ count' = [count EXCEPT ![Proc(t)] =
                    FinalCount(Dropped(Proc(t)), CreatedCount(Proc(t), k))]
    /\ os_lock' = FinalOS(Proc(t), Dropped(Proc(t)), count[Proc(t)])
    /\ pc' = [pc EXCEPT ![t] = "lock_file"]
    /\ exc' = [exc EXCEPT ![t] = "none"]
    /\ UNCHANGED <<store_lock, released, last>>
    /\ UNCHANGED beyondLock

\* _lock_file: `lock.acquire(0.0001)` succeeds, the body starts.
LockFileAcquired(t) ==
    /\ pc[t] = "lock_file"
    /\ AcquireNow(Proc(t), TopLock(t))
    /\ pc' = [pc EXCEPT ![t] = "body"]
    /\ stack' = Tried(t)
    /\ UNCHANGED <<lock_store, store_lock, lock_file, thread_safe, self_lock,
                   exc, released, last>>
    /\ UNCHANGED beyondLock

\* _lock_file: `lock.acquire(0.0001)` raises Timeout; with no_block it is
\* re-raised (lock_for_key's finally clauses run next), otherwise the
\* compensating release and the blocking acquire follow.
LockFileTimeout(t) ==
    /\ pc[t] = "lock_file"
    /\ AcquireTimesOut(Proc(t), TopLock(t))
    /\ IF Top(t).no_block
          THEN /\ pc' = [pc EXCEPT ![t] = "release"]
               /\ exc' = [exc EXCEPT ![t] = "Timeout"]
          ELSE /\ pc' = [pc EXCEPT ![t] = "retry_release"]
               /\ UNCHANGED exc
    /\ stack' = Tried(t)
    /\ UNCHANGED <<lock_store, store_lock, count, lock_file, thread_safe,
                   os_lock, self_lock, released, last>>
    /\ UNCHANGED beyondLock

\* _lock_file: `lock.release()  # release the acquire try from above`
RetryRelease(t) ==
    /\ pc[t] = "retry_release"
    /\ Release(Proc(t), TopLock(t), FALSE)
    /\ pc' = [pc EXCEPT ![t] = "retry_acquire"]
    /\ UNCHANGED <<lock_store, store_lock, lock_file, thread_safe, self_lock,
                   stack, exc, last>>
    /\ UNCHANGED beyondLock

\* _lock_file: `lock.acquire()`: with a positive count or a free OS lock it
\* returns; otherwise it stays inside FileLock.acquire, keeping thread_safe.
RetryAcquire(t) ==
    /\ pc[t] = "retry_acquire"
    /\ thread_safe[Proc(t)][TopLock(t)] = NoThread
    /\ IF AcquiresOS(count[Proc(t)][TopLock(t)]) /\ ~FileLockFree(Proc(t), TopLock(t))
          THEN /\ thread_safe' = [thread_safe EXCEPT ![Proc(t)][TopLock(t)] = t]
               /\ pc' = [pc EXCEPT ![t] = "os_wait"]
               /\ UNCHANGED <<count, os_lock>>
          ELSE /\ AcquireNow(Proc(t), TopLock(t))
               /\ pc' = [pc EXCEPT ![t] = "body"]
               /\ UNCHANGED thread_safe
    /\ UNCHANGED <<lock_store, store_lock, lock_file, self_lock,
                   stack, exc, released, last>>
    /\ UNCHANGED beyondLock

\* The blocking FileLock.acquire gets the OS lock; count += 1; thread_safe
\* is left.
OsWait(t) ==
    /\ pc[t] = "os_wait"
    /\ FileLockFree(Proc(t), TopLock(t))
    /\ os_lock' = FileLockAcquired(Proc(t), TopLock(t))
    /\ count' = [count EXCEPT ![Proc(t)][TopLock(t)] = @ + 1]
    /\ thread_safe' = [thread_safe EXCEPT ![Proc(t)][TopLock(t)] = NoThread]
    /\ pc' = [pc EXCEPT ![t] = "body"]
    /\ UNCHANGED <<lock_store, store_lock, lock_file, self_lock, stack, exc,
                   released, last>>
    /\ UNCHANGED beyondLock

\* The body of the scope ends normally.
BodyReturns(t) ==
    /\ pc[t] = "body"
    /\ exc[t] = "none"
    /\ pc' = [pc EXCEPT ![t] = "release"]
    /\ UNCHANGED <<lock_store, store_lock, count, lock_file, thread_safe,
                   os_lock, self_lock, stack, exc, released, last>>
    /\ UNCHANGED beyondLock

\* The body raises, or lets the exception of an inner scope through.
BodyRaises(t) ==
    /\ pc[t] = "body"
    /\ pc' = [pc EXCEPT ![t] = "release"]
    /\ exc' = [exc EXCEPT ![t] = IF @ = "none" THEN "Error" ELSE @]
    /\ UNCHANGED <<lock_store, store_lock, count, lock_file, thread_safe,
                   os_lock, self_lock, stack, released, last>>
    /\ UNCHANGED beyondLock

\* The body catches the exception of an inner scope and goes on.
BodyCatches(t) ==
    /\ pc[t] = "body"
    /\ exc[t] # "none"
    /\ exc' = [exc EXCEPT ![t] = "none"]
    /\ UNCHANGED <<lock_store, store_lock, count, lock_file, thread_safe,
                   os_lock, self_lock, stack, pc, released, last>>
    /\ UNCHANGED beyondLock

\* `self._release(lock)`: lock_for_key's inner finally, __exit__'s first line.
ScopeRelease(t) ==
    /\ pc[t] = "release"
    /\ TopLock(t) # NoLock
    /\ Release(Proc(t), TopLock(t), FALSE)
    /\ pc' = [pc EXCEPT ![t] = "del_lock"]
    /\ UNCHANGED <<lock_store, store_lock, lock_file, thread_safe, self_lock,
                   stack, exc, last>>
    /\ UNCHANGED beyondLock

\* __exit__ with self._lock already None: `lock.release()` on None raises
\* AttributeError out of __exit__, whose other lines do not run.
ScopeReleaseNone(t) ==
    /\ pc[t] = "release"
    /\ TopLock(t) = NoLock
    /\ exc' = [exc EXCEPT ![t] = "AttributeError"]
    /\ stack' = Pop(t)
    /\ pc' = [pc EXCEPT ![t] = AfterPop(t)]
    /\ UNCHANGED <<lock_store, store_lock, count, lock_file, thread_safe,
                   os_lock, self_lock, released, last>>
    /\ UNCHANGED beyondLock

\* The end of a scope after _del_lock: `self._lock = None`, the frame gone.
ScopeEnds(t) ==
    /\ self_lock' = IF Top(t).kind = "with"
                       THEN [self_lock EXCEPT ![t][Top(t).path] = NoLock]
                       ELSE self_lock
    /\ stack' = Pop(t)
    /\ pc' = [pc EXCEPT ![t] = AfterPop(t)]

\* What the finalizer does to the handles a step drops.
Finalized(p) ==
    /\ count' = [count EXCEPT ![p] = FinalCount(Dropped(p), count[p])]
    /\ os_lock' = FinalOS(p, Dropped(p), count[p])

\* _del_lock: `with _store_lock:` and `with lock.thread_safe:` entered, the
\* entry popped when the count is 0, both mutexes left.
DelLock(t) ==
    /\ pc[t] = "del_lock"
    /\ store_lock[Proc(t)] = NoThread
    /\ thread_safe[Proc(t)][TopLock(t)] = NoThread
    /\ lock_store' = StoreAfterDel(Proc(t), TopLock(t))
    /\ ScopeEnds(t)
    /\ Finalized(Proc(t))
    /\ UNCHANGED <<store_lock, lock_file, thread_safe, exc, released, last>>
    /\ UNCHANGED beyondLock

\* _del_lock: `with _store_lock:` entered, but thread_safe is taken: the
\* thread waits for it and keeps _store_lock.
DelLockWaits(t) ==
    /\ pc[t] = "del_lock"
    /\ store_lock[Proc(t)] = NoThread
    /\ thread_safe[Proc(t)][TopLock(t)] # NoThread
    /\ store_lock' = [store_lock EXCEPT ![Proc(t)] = t]
    /\ pc' = [pc EXCEPT ![t] = "del_inner"]
    /\ UNCHANGED <<lock_store, count, lock_file, thread_safe, os_lock,
                   self_lock, stack, exc, released, last>>
    /\ UNCHANGED beyondLock

\* _del_lock: thread_safe obtained after the wait.
DelLockInner(t) ==
    /\ pc[t] = "del_inner"
    /\ thread_safe[Proc(t)][TopLock(t)] = NoThread
    /\ lock_store' = StoreAfterDel(Proc(t), TopLock(t))
    /\ store_lock' = [store_lock EXCEPT ![Proc(t)] = NoThread]
    /\ ScopeEnds(t)
    /\ Finalized(Proc(t))
    /\ UNCHANGED <<lock_file, thread_safe, exc, released, last>>
    /\ UNCHANGED beyondLock

Next ==
    \E t \in Threads :
        \/ \E k \in Paths, nb \in BOOLEAN : LockForKey(t, k, nb)
        \/ \E k \in Paths : Locked(t, k)
        \/ \E k \in Paths : Enter(t, k)
        \/ LockFileAcquired(t)
        \/ LockFileTimeout(t)
        \/ RetryRelease(t)
        \/ RetryAcquire(t)
        \/ OsWait(t)
        \/ BodyReturns(t)
        \/ BodyRaises(t)
        \/ BodyCatches(t)
        \/ ScopeRelease(t)
        \/ ScopeReleaseNone(t)
        \/ DelLock(t)
        \/ DelLockWaits(t)
        \/ DelLockInner(t)

Spec == Init /\ [][Next]_vars

\* ------------------------------------------------------------- direct calls
\* The second specification: threads call acquire and release of
\* _CountedFileLock objects directly, in any order; every process has
\* MaxHandles objects for the same lock file.

\* h.acquire(timeout) returns.
HAcquire(t, h) ==
    /\ pc[t] = "idle"
    /\ AcquireNow(Proc(t), h)
    /\ last' = Call("acquire", t, h, FALSE)
    /\ UNCHANGED <<lock_store, store_lock, lock_file, thread_safe, self_lock,
                   pc, stack, exc, released>>
    /\ UNCHANGED beyondLock

\* h.acquire(0.0001) raises Timeout.
HAcquireTimeout(t, h) ==
    /\ pc[t] = "idle"
    /\ AcquireTimesOut(Proc(t), h)
    /\ last' = Call("timeout", t, h, FALSE)
    /\ UNCHANGED <<lock_store, store_lock, count, lock_file, thread_safe,
                   os_lock, self_lock, pc, stack, exc, released>>
    /\ UNCHANGED beyondLock

\* h.acquire() finds the OS lock taken and waits for it inside thread_safe.
HAcquireWaits(t, h) ==
    /\ pc[t] = "idle"
    /\ AcquireTimesOut(Proc(t), h)
    /\ thread_safe' = [thread_safe EXCEPT ![Proc(t)][h] = t]
    /\ stack' = Push(t, Frame("call", lock_file[Proc(t)][h], h, FALSE))
    /\ pc' = [pc EXCEPT ![t] = "os_wait"]
    /\ last' = Call("wait", t, h, FALSE)
    /\ UNCHANGED <<lock_store, store_lock, count, lock_file, os_lock,
                   self_lock, exc, released>>
    /\ UNCHANGED beyondLock

\* The waiting h.acquire() gets the OS lock and returns.
HAcquireWakes(t) ==
    /\ pc[t] = "os_wait"
    /\ FileLockFree(Proc(t), TopLock(t))
    /\ os_lock' = FileLockAcquired(Proc(t), TopLock(t))
    /\ count' = [count EXCEPT ![Proc(t)][TopLock(t)] = @ + 1]
    /\ thread_safe' = [thread_safe EXCEPT ![Proc(t)][TopLock(t)] = NoThread]
    /\ stack' = Pop(t)
    /\ pc' = [pc EXCEPT ![t] = "idle"]
    /\ last' = Call("acquire", t, TopLock(t), FALSE)
    /\ UNCHANGED <<lock_store, store_lock, lock_file, self_lock, exc, released>>
    /\ UNCHANGED beyondLock

\* h.release(force).
HRelease(t, h, force) ==
    /\ pc[t] = "idle"
    /\ Release(Proc(t), h, force)
    /\ last' = Call("release", t, h, force)
    /\ UNCHANGED <<lock_store, store_lock, lock_file, thread_safe, self_lock,
                   pc, stack, exc>>
    /\ UNCHANGED beyondLock

NextHandle ==
    \E t \in Threads :
        \/ \E h \in Handles : HAcquire(t, h)
        \/ \E h \in Handles : HAcquireTimeout(t, h)
        \/ \E h \in Handles : HAcquireWaits(t, h)
        \/ HAcquireWakes(t)
        \/ \E h \in Handles, force \in BOOLEAN : HRelease(t, h, force)

SpecHandle == Init /\ [][NextHandle]_vars

\* ------------------------------------------------------------- waiting
\* The third specification: thread 1 keeps one lock object for the folder
\* and uses whole-directory scopes (`with lock:`), the other threads use
\* blocking lock_for_key; every step that does not open a scope is taken
\* when it can be, and every body ends.

\* The steps of a thread between the opening of a scope and its body, and
\* between its body and its end.
Progress(t) ==
    \/ LockFileAcquired(t)
    \/ LockFileTimeout(t)
    \/ RetryRelease(t)
    \/ RetryAcquire(t)
    \/ OsWait(t)
    \/ ScopeRelease(t)
    \/ ScopeReleaseNone(t)
    \/ DelLock(t)
    \/ DelLockWaits(t)
    \/ DelLockInner(t)

\* The body of the scope at depth d ends, normally or by an exception.
BodyEnds(t, d) == (BodyReturns(t) \/ BodyRaises(t)) /\ Len(stack[t]) = d

NextLive ==
    \E t \in Threads :
        \/ \E k \in Paths : t = 1 /\ Enter(t, k)
        \/ \E k \in Paths : t # 1 /\ LockForKey(t, k, FALSE)
        \/ Progress(t)
        \/ BodyReturns(t)
        \/ BodyRaises(t)
        \/ BodyCatches(t)

\* Mutexes and the OS lock go to a thread that asks for them again and
\* again (strong fairness), and no body runs forever.
Fairness ==
    \A t \in Threads :
        /\ SF_vars(Progress(t))
        /\ \A d \in 1..MaxDepth : SF_vars(BodyEnds(t, d))

SpecLive == Init /\ [][NextLive]_vars /\ Fairness

\* ------------------------------------------------------------- NoOpFileLock
\* The fourth specification: thread 1 works with a NoOpFileLock, the other
\* threads (one in each process) with lock_for_key of a ReentrantFileLock.
UsesNoOp(t) == t = 1

\* NoOpFileLock.lock_for_key(name, no_block): `yield`
NoOpLockForKey(t, k, nb) ==
    /\ CanOpen(t)
    /\ stack' = Push(t, Frame("noop_key", k, NoLock, nb))
    /\ pc' = [pc EXCEPT ![t] = "body"]
    /\ exc' = [exc EXCEPT ![t] = "none"]
    /\ UNCHANGED <<lock_store, store_lock, count, lock_file, thread_safe,
                   os_lock, self_lock, released, last>>
    /\ UNCHANGED beyondLock

\* NoOpFileLock.non_reentrant_lock_for_key(name): `yield`
NoOpNonReentrantLockForKey(t, k) ==
    /\ CanOpen(t)
    /\ stack' = Push(t, Frame("noop_non_reentrant", k, NoLock, FALSE))
    /\ pc' = [pc EXCEPT ![t] = "body"]
    /\ exc' = [exc EXCEPT ![t] = "none"]
    /\ UNCHANGED <<lock_store, store_lock, count, lock_file, thread_safe,
                   os_lock, self_lock, released, last>>
    /\ UNCHANGED beyondLock

\* NoOpFileLock.__enter__ (`with lock:`): `raise NotImplementedError`; the
\* body does not run and no scope is open afterwards.
NoOpEnter(t) ==
    /\ pc[t] \in {"idle", "body"}
    /\ pc[t] = "body" => exc[t] = "none"
    /\ exc' = [exc EXCEPT ![t] = "NotImplementedError"]
    /\ UNCHANGED <<lock_store, store_lock, count, lock_file, thread_safe,
                   os_lock, self_lock, pc, stack, released, last>>
    /\ UNCHANGED beyondLock

\* NoOpFileLock.__exit__ called on the object: `raise NotImplementedError`
NoOpExit(t) ==
    /\ pc[t] \in {"idle", "body"}
    /\ pc[t] = "body" => exc[t] = "none"
    /\ exc' = [exc EXCEPT ![t] = "NotImplementedError"]
    /\ UNCHANGED <<lock_store, store_lock, count, lock_file, thread_safe,
                   os_lock, self_lock, pc, stack, released, last>>
    /\ UNCHANGED beyondLock

\* The body of a NoOpFileLock scope returns: the generator ends after its
\* `yield`.
NoOpBodyReturns(t) ==
    /\ pc[t] = "body"
    /\ exc[t] = "none"
    /\ stack' = Pop(t)
    /\ pc' = [pc EXCEPT ![t] = AfterPop(t)]
    /\ UNCHANGED <<lock_store, store_lock, count, lock_file, thread_safe,
                   os_lock, self_lock, exc, released, last>>
    /\ UNCHANGED beyondLock

\* The body of a NoOpFileLock scope raises (or lets an exception through):
\* the exception leaves the generator at its `yield`.
NoOpBodyRaises(t) ==
    /\ pc[t] = "body"
    /\ stack' = Pop(t)
    /\ pc' = [pc EXCEPT ![t] = AfterPop(t)]
    /\ exc' = [exc EXCEPT ![t] = IF @ = "none" THEN "Error" ELSE @]
    /\ UNCHANGED <<lock_store, store_lock, count, lock_file, thread_safe,
                   os_lock, self_lock, released, last>>
    /\ UNCHANGED beyondLock

NextNoOp ==
    \E t \in Threads :
        \/ \E k \in Paths, nb \in BOOLEAN : UsesNoOp(t) /\ NoOpLockForKey(t, k, nb)
        \/ \E k \in Paths : UsesNoOp(t) /\ NoOpNonReentrantLockForKey(t, k)
        \/ UsesNoOp(t) /\ NoOpEnter(t)
        \/ UsesNoOp(t) /\ NoOpExit(t)
        \/ UsesNoOp(t) /\ NoOpBodyReturns(t)
        \/ UsesNoOp(t) /\ NoOpBodyRaises(t)
        \/ UsesNoOp(t) /\ BodyCatches(t)
        \/ \E k \in Paths, nb \in BOOLEAN : ~UsesNoOp(t) /\ LockForKey(t, k, nb)
        \/ ~UsesNoOp(t) /\ LockFileAcquired(t)
        \/ ~UsesNoOp(t) /\ LockFileTimeout(t)
        \/ ~UsesNoOp(t) /\ RetryRelease(t)
        \/ ~UsesNoOp(t) /\ RetryAcquire(t)
        \/ ~UsesNoOp(t) /\ OsWait(t)
        \/ ~UsesNoOp(t) /\ BodyReturns(t)
        \/ ~UsesNoOp(t) /\ BodyRaises(t)
        \/ ~UsesNoOp(t) /\ ScopeRelease(t)
        \/ ~UsesNoOp(t) /\ DelLock(t)

SpecNoOp == Init /\ [][NextNoOp]_vars

\* ------------------------------------------------------------- lock objects of a folder
\* The fifth specification: one thread makes lock objects for one folder,
\* separately or from the parent folder's object with `/`, before and after
\* the folder is on disk, and opens lock_for_key scopes through them.

\* Handles a reference still reaches, and identities a new object can get.
NamedReferenced ==
    {named_store[lf] : lf \in LockFileNames}
    \cup {scopes[i].lock : i \in 1..Len(scopes)}
NamedFree == {h \in Handles \ NamedReferenced : named_count[h] = 0}
NamedNew == CHOOSE h \in NamedFree : \A g \in NamedFree : h <= g

InitPath ==
    /\ InitLock
    /\ NoUpload
    /\ NoView
    /\ folder_exists \in BOOLEAN
    /\ parent_path \in Names
    /\ path = [o \in Objects |-> Unset]
    /\ named_store = [lf \in LockFileNames |-> NoLock]
    /\ named_count = [h \in Handles |-> 0]
    /\ named_file = [h \in Handles |-> <<"resolved", 1>>]
    /\ file_lock = [k \in Keys |-> NoLock]
    /\ scopes = <<>>
    /\ at = "idle"
    /\ NoStore
    /\ NoAppData

\* ReentrantFileLock(folder), the folder written as `name`.
NewLock(o, name) ==
    /\ at \in {"idle", "body"}
    /\ path[o] = Unset
    /\ path' = [path EXCEPT ![o] = PathOf(name)]
    /\ UNCHANGED <<folder_exists, parent_path, named_store, named_count,
                   named_file, file_lock, scopes, at>>
    /\ UNCHANGED beyondPath

\* parent / folder: `type(self)(self.path / other)`, the folder named after
\* the parent object's path.
DivLock(o) ==
    /\ at \in {"idle", "body"}
    /\ path[o] = Unset
    /\ path' = [path EXCEPT ![o] = PathOf(parent_path)]
    /\ UNCHANGED <<folder_exists, parent_path, named_store, named_count,
                   named_file, file_lock, scopes, at>>
    /\ UNCHANGED beyondPath

\* A lock object no scope uses goes away: __del__ calls _del_lock(None).
DelLockObject(o) ==
    /\ at \in {"idle", "body"}
    /\ path[o] # Unset
    /\ \A i \in 1..Len(scopes) : scopes[i].object # o
    /\ path' = [path EXCEPT ![o] = Unset]
    /\ UNCHANGED <<folder_exists, parent_path, named_store, named_count,
                   named_file, file_lock, scopes, at>>
    /\ UNCHANGED beyondPath

\* lock_for_key(name) through object o up to the body: _create_lock (the
\* registry asked by lock-file name), _lock_file (the folder made, the try,
\* and after a Timeout the release and the blocking acquire).  With one
\* thread, a blocking acquire of a taken OS lock never returns.
LockForKeyOn(o, k) ==
    LET lf == LockFileName(o, k)
        reuse == named_store[lf] # NoLock
        h == IF reuse THEN named_store[lf] ELSE NamedNew
        c == IF reuse THEN named_count[h] ELSE 0
        timeout == AcquiresOS(c) /\ file_lock[FileOf(lf)] \notin {NoLock, h}
    IN  /\ at \in {"idle", "body"}
        /\ Len(scopes) < MaxDepth
        /\ path[o] # Unset
        /\ reuse \/ NamedFree # {}
        /\ named_store' = [named_store EXCEPT ![lf] = h]
        /\ named_file' = [named_file EXCEPT ![h] = lf]
        /\ folder_exists' = TRUE
        /\ scopes' = Append(scopes, [object |-> o, key |-> k, lock |-> h])
        /\ IF timeout
              THEN /\ named_count' = [named_count EXCEPT ![h] = CountAfterRelease(c)]
                   /\ at' = "os_wait"
                   /\ UNCHANGED file_lock
              ELSE /\ named_count' = [named_count EXCEPT ![h] = c + 1]
                   /\ file_lock' = IF AcquiresOS(c)
                                      THEN [file_lock EXCEPT ![FileOf(lf)] = h]
                                      ELSE file_lock
                   /\ at' = "body"
        /\ UNCHANGED <<parent_path, path>>
        /\ UNCHANGED beyondPath

\* The innermost lock_for_key scope ends: _release, then _del_lock.
ExitLockForKey ==
    LET h == scopes[Len(scopes)].lock
        c == named_count[h]
    IN  /\ at = "body"
        /\ scopes # <<>>
        /\ file_lock' = IF ReleasesOS(c, FALSE) /\ file_lock[FileOf(named_file[h])] = h
                           THEN [file_lock EXCEPT ![FileOf(named_file[h])] = NoLock]
                           ELSE file_lock
        /\ named_count' = [named_count EXCEPT ![h] = CountAfterRelease(c)]
        /\ named_store' = IF DelLockPops(CountAfterRelease(c))
                             THEN [named_store EXCEPT ![named_file[h]] = NoLock]
                             ELSE named_store
        /\ scopes' = SubSeq(scopes, 1, Len(scopes) - 1)
        /\ at' = IF Len(scopes) = 1 THEN "idle" ELSE "body"
        /\ UNCHANGED <<folder_exists, parent_path, path, named_file>>
        /\ UNCHANGED beyondPath

NextPath ==
    \/ \E o \in Objects, name \in Names : NewLock(o, name)
    \/ \E o \in Objects : DivLock(o)
    \/ \E o \in Objects : DelLockObject(o)
    \/ \E o \in Objects, k \in Keys : LockForKeyOn(o, k)
    \/ ExitLockForKey

SpecPath == InitPath /\ [][NextPath]_vars

\* ------------------------------------------------------------- JSONStoreDisk
\* JSONStoreDisk.exists: `self.file.exists()`
ExistsValue == file.kind # "absent"

\* Faulty variant: no text counts as malformed.
BadFormat_Never(f) == FALSE
\* Faulty variant: every failure of the read counts as malformed.
BadFormat_AnyError(f) == f.kind # "json"
\* read: `json.loads(self.file.read_text())` raises ValueError
\* (JSONDecodeError, UnicodeDecodeError): `bad_format = True`
BadFormat(f) == f.kind \in {"empty", "garbled"}
\* read: read_text raises another exception (FileNotFoundError,
\* PermissionError): `except Exception: pass`
ReadFails(f) == f.kind \in {"absent", "unreadable"}

\* Path.unlink() removes the directory entry; a write under way keeps its
\* open file, which is no longer the entry's.
Unlinked ==
    [t \in Threads |-> IF doing[t] = "write_text" THEN "write_text_unlinked" ELSE doing[t]]

\* JSONStoreDisk.exists()
Exists(t) ==
    /\ doing[t] = "idle"
    /\ result' = [result EXCEPT ![t] =
                     Result("exists", IF ExistsValue THEN "true" ELSE "false", <<>>, <<>>)]
    /\ UNCHANGED <<file, doing, writing>>
    /\ UNCHANGED beyondStore

\* read() up to its return, or up to `self.remove()` when the text did not
\* parse.
Read(t) ==
    /\ doing[t] = "idle"
    /\ IF BadFormat(file)
          THEN /\ doing' = [doing EXCEPT ![t] = "remove"]
               /\ UNCHANGED result
          ELSE /\ result' = [result EXCEPT ![t] =
                                IF ReadFails(file)
                                   THEN Result("read", "none", <<>>, <<>>)
                                   ELSE Result("read", "value", Loads(file.text), <<>>)]
               /\ UNCHANGED doing
    /\ UNCHANGED <<file, writing>>
    /\ UNCHANGED beyondStore

\* read(): `try: self.remove()  except OSError: pass`, then `return None`.
ReadRemove(t) ==
    /\ doing[t] = "remove"
    /\ file' = Absent
    /\ doing' = [Unlinked EXCEPT ![t] = "idle"]
    /\ result' = [result EXCEPT ![t] = Result("read", "none", <<>>, <<>>)]
    /\ UNCHANGED writing
    /\ UNCHANGED beyondStore

\* Faulty variant: unlink(missing_ok=True).
RemoveRaises_Never(f) == FALSE
\* remove(): `self.file.unlink()` raises FileNotFoundError for a missing file.
RemoveRaises(f) == f.kind = "absent"

\* remove()
Remove(t) ==
    /\ doing[t] = "idle"
    /\ IF RemoveRaises(file)
          THEN /\ result' = [result EXCEPT ![t] = Result("remove", "OSError", <<>>, <<>>)]
               /\ UNCHANGED <<file, doing>>
          ELSE /\ file' = Absent
               /\ doing' = Unlinked
               /\ result' = [result EXCEPT ![t] = Result("remove", "ok", <<>>, <<>>)]
    /\ UNCHANGED writing
    /\ UNCHANGED beyondStore

\* write(content) up to the open file: json.dumps raises TypeError, or the
\* folder is made and write_text opens the file, which creates or empties
\* it (a file not readable by this user stays so).
Write(t, doc) ==
    /\ doing[t] = "idle"
    /\ IF Sortable(doc)
          THEN /\ file' = IF file.kind = "unreadable" THEN file ELSE Empty
               /\ doing' = [doing EXCEPT ![t] = "write_text"]
               /\ writing' = [writing EXCEPT ![t] = doc]
               /\ UNCHANGED result
          ELSE /\ result' = [result EXCEPT ![t] = Result("write", "TypeError", doc, <<>>)]
               /\ UNCHANGED <<file, doing, writing>>
    /\ UNCHANGED beyondStore

\* What the file holds once write_text has put its text at the start of
\* the open file: the text, or (depending on the lengths) a mix with the
\* text another write put there since this one opened the file.
Written(text) ==
    CASE file.kind = "unreadable" -> {file}
      [] file.kind = "empty" -> {JsonFile(text)}
      [] file.kind = "json" /\ file.text = text -> {JsonFile(text)}
      [] OTHER -> {JsonFile(text), Garbled}

\* write(content): write_text writes the text and closes the file.
WriteText(t) ==
    /\ doing[t] \in {"write_text", "write_text_unlinked"}
    /\ IF doing[t] = "write_text"
          THEN \E f \in Written(Dumps(writing[t])) : file' = f
          ELSE UNCHANGED file
    /\ doing' = [doing EXCEPT ![t] = "idle"]
    /\ writing' = [writing EXCEPT ![t] = <<>>]
    /\ result' = [result EXCEPT ![t] = Result("write", "ok", writing[t], Dumps(writing[t]))]
    /\ UNCHANGED beyondStore

\* The sixth specification: one thread calls the entry's methods one after
\* the other, with any document.
Alone(t) == t = 1

InitJSON ==
    /\ InitLock
    /\ NoUpload
    /\ NoView
    /\ NoFolder
    /\ NoAppData
    /\ file \in {Absent, Garbled}
    /\ doing = [t \in Threads |-> "idle"]
    /\ writing = [t \in Threads |-> <<>>]
    /\ result = [t \in Threads |-> NoResult]

NextJSON ==
    \E t \in Threads :
        \/ \E doc \in Docs : Alone(t) /\ Write(t, doc)
        \/ Alone(t) /\ WriteText(t)
        \/ Alone(t) /\ Read(t)
        \/ Alone(t) /\ ReadRemove(t)
        \/ Alone(t) /\ Remove(t)
        \/ Alone(t) /\ Exists(t)

SpecJSON == InitJSON /\ [][NextJSON]_vars

\* The seventh specification: the threads call the methods of one entry
\* concurrently, without any lock; the entry starts missing, holding a
\* document, holding no JSON, or not readable.
StoreDocs == {d \in Docs : Len(d) = 1 /\ d[1][1] = PyStr("a") /\ d[1][2][1] # "tuple"}

InitStore ==
    /\ InitLock
    /\ NoUpload
    /\ NoView
    /\ NoFolder
    /\ NoAppData
    /\ file \in {Absent, Garbled, Unreadable} \cup {JsonFile(Dumps(d)) : d \in StoreDocs}
    /\ doing = [t \in Threads |-> "idle"]
    /\ writing = [t \in Threads |-> <<>>]
    /\ result = [t \in Threads |-> NoResult]

NextStore ==
    \E t \in Threads :
        \/ \E doc \in StoreDocs : Write(t, doc)
        \/ WriteText(t)
        \/ Read(t)
        \/ ReadRemove(t)
        \/ Remove(t)
        \/ Exists(t)

SpecStore == InitStore /\ [][NextStore]_vars

\* The eighth specification: the entry holds a document; one thread
\* overwrites it with write(), the others read it, without any lock.
InitOverwrite ==
    /\ InitLock
    /\ NoUpload
    /\ NoView
    /\ NoFolder
    /\ NoAppData
    /\ file \in {JsonFile(Dumps(d)) : d \in {e \in Docs : Sortable(e)}}
    /\ doing = [t \in Threads |-> "idle"]
    /\ writing = [t \in Threads |-> <<>>]
    /\ result = [t \in Threads |-> NoResult]

NextOverwrite ==
    \E t \in Threads :
        \/ \E doc \in StoreDocs : Alone(t) /\ Write(t, doc)
        \/ Alone(t) /\ WriteText(t)
        \/ ~Alone(t) /\ Read(t)
        \/ ~Alone(t) /\ ReadRemove(t)

SpecOverwrite == InitOverwrite /\ [][NextOverwrite]_vars

\* ------------------------------------------------------------- non_reentrant_lock_for_key
\* The ninth specification: the threads open lock_for_key and
\* non_reentrant_lock_for_key scopes.

\* Faulty variant: the handle is taken from the registry when it has one.
NonReentrantHandle_Registered(p, k) == CreatedLock(p, k)
\* non_reentrant_lock_for_key: `_CountedFileLock(str(self.path / f"{name}.lock"))`,
\* a new object that the registry never sees.
NonReentrantHandle(p, k) == NewHandle(p)

\* non_reentrant_lock_for_key(name) up to the `with` statement's
\* `lock.acquire()`, which has no timeout.
NonReentrantLockForKey(t, k) ==
    /\ CanOpen(t)
    /\ FreeHandles(Proc(t)) # {}
    /\ lock_file' = [lock_file EXCEPT ![Proc(t)][NonReentrantHandle(Proc(t), k)] = k]
    /\ thread_safe' = [thread_safe EXCEPT ![Proc(t)][NonReentrantHandle(Proc(t), k)] = NoThread]
    /\ count' = [count EXCEPT ![Proc(t)][NonReentrantHandle(Proc(t), k)] = 0]
    /\ stack' = Push(t, Frame("non_reentrant", k, NonReentrantHandle(Proc(t), k), FALSE))
    /\ pc' = [pc EXCEPT ![t] = "retry_acquire"]
    /\ exc' = [exc EXCEPT ![t] = "none"]
    /\ UNCHANGED <<lock_store, store_lock, os_lock, self_lock, released, last>>
    /\ UNCHANGED beyondLock

\* The end of a non_reentrant_lock_for_key scope: the `with` statement's
\* `lock.release()`; the object, at count 0, goes away with the scope.
NonReentrantExit(t) ==
    /\ pc[t] = "release"
    /\ Top(t).kind = "non_reentrant"
    /\ Release(Proc(t), TopLock(t), FALSE)
    /\ stack' = Pop(t)
    /\ pc' = [pc EXCEPT ![t] = AfterPop(t)]
    /\ UNCHANGED <<lock_store, store_lock, lock_file, thread_safe, self_lock,
                   exc, last>>
    /\ UNCHANGED beyondLock

NextNonReentrant ==
    \E t \in Threads :
        \/ \E k \in Paths, nb \in BOOLEAN : LockForKey(t, k, nb)
        \/ \E k \in Paths : NonReentrantLockForKey(t, k)
        \/ LockFileAcquired(t)
        \/ LockFileTimeout(t)
        \/ RetryRelease(t)
        \/ RetryAcquire(t)
        \/ OsWait(t)
        \/ BodyReturns(t)
        \/ BodyRaises(t)
        \/ BodyCatches(t)
        \/ ScopeRelease(t) /\ Top(t).kind = "key"
        \/ NonReentrantExit(t)
        \/ DelLock(t)
        \/ DelLockWaits(t)
        \/ DelLockInner(t)

SpecNonReentrant == Init /\ [][NextNonReentrant]_vars

\* ------------------------------------------------------------- locked()
\* The tenth specification: the entry holds a counter document that starts
\* at 0; every thread, once, reads it and writes it back incremented inside
\* `with store.locked():`.
CounterDoc(n) == <<<<PyStr("a"), PyInt(n)>>>>
Incremented(doc) == CounterDoc(doc[1][2][2] + 1)

InitCounter ==
    /\ InitLock
    /\ NoUpload
    /\ NoView
    /\ NoFolder
    /\ NoAppData
    /\ file = JsonFile(Dumps(CounterDoc(0)))
    /\ doing = [t \in Threads |-> "idle"]
    /\ writing = [t \in Threads |-> <<>>]
    /\ result = [t \in Threads |-> NoResult]

\* JSONStoreDisk.locked is `with self.in_folder.lock_for_key(self.key): yield`;
\* the body is read(), then write(); a read() that returns None makes the
\* increment raise.
NextCounter ==
    \E t \in Threads :
        \/ \E k \in Paths : result[t] = NoResult /\ stack[t] = <<>> /\ LockForKey(t, k, FALSE)
        \/ LockFileAcquired(t)
        \/ LockFileTimeout(t)
        \/ RetryRelease(t)
        \/ RetryAcquire(t)
        \/ OsWait(t)
        \/ pc[t] = "body" /\ result[t].op = "none" /\ Read(t)
        \/ ReadRemove(t)
        \/ pc[t] = "body" /\ result[t].op = "read" /\ result[t].kind = "value"
              /\ Write(t, Incremented(result[t].doc))
        \/ WriteText(t)
        \/ result[t].op = "write" /\ BodyReturns(t)
        \/ result[t].op = "read" /\ result[t].kind = "none" /\ BodyRaises(t)
        \/ ScopeRelease(t)
        \/ DelLock(t)
        \/ DelLockWaits(t)
        \/ DelLockInner(t)

SpecCounter == InitCounter /\ [][NextCounter]_vars

\* ------------------------------------------------------------- extract, call after call
\* The eleventh specification: one thread calls extract(path, to_folder)
\* MaxCalls times, one call after the other; the cache starts empty, its
\* folder on disk or not, written in either way.

\* extract(path, to_folder) is called.
ExtractCall(to_folder, k) ==
    /\ at = "idle"
    /\ step[1].at = "idle"
    /\ Len(yielded[1]) < MaxCalls
    /\ \A o \in Objects : path[o] = Unset
    /\ step' = [step EXCEPT ![1] = InCall("root", to_folder, k)]
    /\ UNCHANGED <<dest, extracted, yielded>>
    /\ UNCHANGED cacheVars
    /\ UNCHANGED beyondApp

\* extract, inside `with root.lock_for_key(path.name):` up to the yield:
\* `dest = root.path / path.name`, the extraction when dest does not
\* exist (nobody else works on the folder), `yield dest`.
ExtractBody ==
    LET o == scopes[Len(scopes)].object
        k == step[1].archive
    IN  /\ at = "body"
        /\ step[1].at = "root"
        /\ dest' = [dest EXCEPT ![k] = "complete"]
        /\ extracted' = [extracted EXCEPT ![k] = IF dest[k] = "absent" THEN @ + 1 ELSE @]
        /\ yielded' = [yielded EXCEPT ![1] =
                          Append(@, [to_folder |-> step[1].to_folder, archive |-> k,
                                     dest |-> <<path[o], k>>,
                                     ran |-> dest[k] = "absent",
                                     found |-> dest'[k]])]
        /\ step' = [step EXCEPT ![1].at = "yield"]
        /\ UNCHANGED cacheVars
        /\ UNCHANGED beyondApp

\* The caller's body is over, the scope has ended and `root` is gone:
\* the call is over.
ExtractEnds ==
    /\ at = "idle"
    /\ step[1].at = "yield"
    /\ \A o \in Objects : path[o] = Unset
    /\ step' = [step EXCEPT ![1] = NoCall]
    /\ UNCHANGED <<dest, extracted, yielded>>
    /\ UNCHANGED cacheVars
    /\ UNCHANGED beyondApp

NextExtractTwice ==
    \/ \E name \in Names \cup {Default}, k \in Keys : ExtractCall(name, k)
    \/ \E o \in Objects :
          /\ step[1].at = "root" /\ step[1].to_folder # Default
          /\ \A q \in Objects : path[q] = Unset
          /\ NewLock(o, step[1].to_folder)
    \/ \E o \in Objects :
          /\ step[1].at = "root" /\ step[1].to_folder = Default
          /\ \A q \in Objects : path[q] = Unset
          /\ DivLock(o)
    \/ \E o \in Objects :
          /\ step[1].at = "root" /\ scopes = <<>>
          /\ LockForKeyOn(o, step[1].archive)
    \/ ExtractBody
    \/ step[1].at = "yield" /\ ExitLockForKey
    \/ \E o \in Objects : step[1].at = "yield" /\ at = "idle" /\ DelLockObject(o)
    \/ ExtractEnds

SpecExtractTwice == InitPath /\ [][NextExtractTwice]_vars

\* ------------------------------------------------------------- extract, concurrently
\* The twelfth specification: every thread calls extract(path, None) once,
\* for the same archive of the same cache folder, written in resolved form.

\* extract: `dest = root.path / path.name`, `if not dest.exists():`; a
\* destination found is yielded.
ExtractCheck(t) ==
    LET k == Top(t).path
    IN  /\ pc[t] = "body"
        /\ step[t].at = "idle"
        /\ IF dest[k] = "absent"
              THEN /\ step' = [step EXCEPT ![t] = InCall("extract", Default, k)]
                   /\ UNCHANGED yielded
              ELSE /\ step' = [step EXCEPT ![t] = InCall("yield", Default, k)]
                   /\ yielded' = [yielded EXCEPT ![t] =
                                     Append(@, [archive |-> k, ran |-> FALSE,
                                                found |-> dest[k]])]
        /\ UNCHANGED <<dest, extracted>>
        /\ UNCHANGED cacheVars
        /\ UNCHANGED beyondApp

\* extract: `extract(path, dest)` starts: the routine makes the destination
\* and fills it piece by piece.
ExtractBegins(t) ==
    /\ step[t].at = "extract"
    /\ dest' = [dest EXCEPT ![step[t].archive] = "partial"]
    /\ extracted' = [extracted EXCEPT ![step[t].archive] = @ + 1]
    /\ step' = [step EXCEPT ![t].at = "extracting"]
    /\ UNCHANGED yielded
    /\ UNCHANGED cacheVars
    /\ UNCHANGED beyondApp

\* extract: `extract(path, dest)` returns, `yield dest`.
ExtractFinishes(t) ==
    /\ step[t].at = "extracting"
    /\ dest' = [dest EXCEPT ![step[t].archive] =
                   IF \E u \in Threads \ {t} : step[u] = step[t] THEN "partial" ELSE "complete"]
    /\ step' = [step EXCEPT ![t].at = "yield"]
    /\ yielded' = [yielded EXCEPT ![t] =
                      Append(@, [archive |-> step[t].archive, ran |-> TRUE,
                                 found |-> dest'[step[t].archive]])]
    /\ UNCHANGED extracted
    /\ UNCHANGED cacheVars
    /\ UNCHANGED beyondApp

NextExtract ==
    \E t \in Threads :
        \/ \E k \in Paths :
              yielded[t] = <<>> /\ stack[t] = <<>> /\ LockForKey(t, k, FALSE)
        \/ LockFileAcquired(t)
        \/ LockFileTimeout(t)
        \/ RetryRelease(t)
        \/ RetryAcquire(t)
        \/ OsWait(t)
        \/ ExtractCheck(t)
        \/ ExtractBegins(t)
        \/ ExtractFinishes(t)
        \/ step[t].at = "yield" /\ BodyReturns(t)
        \/ step[t].at = "yield" /\ BodyRaises(t)
        \/ ScopeRelease(t)
        \/ DelLock(t)
        \/ DelLockWaits(t)
        \/ DelLockInner(t)

SpecExtract == Init /\ [][NextExtract]_vars

\* ------------------------------------------------------------- app data
\* The thirteenth specification: one caller works on one app-data object,
\* an AppDataDiskFolder or a TempAppData, call after call.

\* What the calls on the app data leave alone: the lock objects of the
\* path model, extract()'s history, the upload task and the file views.
lockObjects == <<parent_path, path, named_store, named_count, named_file,
                 file_lock, scopes, at>>
extractCalls == <<extracted, yielded, step, uploadVars, viewVars>>

\* The documents the caller writes.
CacheDocs ==
    StoreDocs \cup {<<<<PyStr("a"), PyTuple("1")>>>>,
                    <<<<PyInt("1"), PyStr("v")>>>>,
                    <<<<PyStr("a"), PyStr("v")>>, <<PyInt("1"), PyStr("v")>>>>}

\* AppDataDiskFolder.__init__(folder) on a folder that exists or not;
\* TempAppData.__init__ makes its folder with mkdtemp().
InitAppData ==
    /\ InitLock
    /\ NoUpload
    /\ NoView
    /\ NoStore
    /\ dest = [k \in Keys |-> "absent"]
    /\ extracted = [k \in Keys |-> 0]
    /\ yielded = [t \in Threads |-> <<>>]
    /\ step = [t \in Threads |-> NoCall]
    /\ NoCache
    /\ app \in AppClasses
    /\ folder_exists \in {Transient(app), TRUE}
    /\ parent_path = "resolved"
    /\ path = [o \in Objects |-> Unset]
    /\ named_store = [lf \in LockFileNames |-> NoLock]
    /\ named_count = [h \in Handles |-> 0]
    /\ named_file = [h \in Handles |-> <<"resolved", 1>>]
    /\ file_lock = [k \in Keys |-> NoLock]
    /\ scopes = <<>>
    /\ at = "idle"

\* close() has not been called and no call is under way.
Open == outcome.op # "close" /\ clear.at = "idle"

\* JSONStoreDisk.write(content) on the entry: json.dumps raises TypeError,
\* or the folders are made and the text is written.
StoreWrite(e, doc) ==
    /\ Open
    /\ IF Sortable(doc)
          THEN /\ folder_exists' = TRUE
               /\ cache' = [cache EXCEPT ![e] = JsonFile(Dumps(doc))]
               /\ outcome' = Outcome("write", e, "ok", doc)
          ELSE /\ outcome' = Outcome("write", e, "TypeError", doc)
               /\ UNCHANGED <<folder_exists, cache>>
    /\ UNCHANGED <<dest, app, held, clear>>
    /\ UNCHANGED <<lockVars, storeVars, lockObjects, extractCalls>>

\* TempAppData.embed_update_log: `raise NotImplementedError`
EmbedUpdateLogRaises(cls) == cls = "TempAppData"

\* embed_update_log(distribution, for_py_version), and write(content) on
\* the store it returns.
EmbedUpdateLogWrite(d, doc) ==
    IF EmbedUpdateLogRaises(app)
       THEN /\ Open
            /\ outcome' = Outcome("embed_update_log", EmbedEntry(d), "NotImplementedError", <<>>)
            /\ UNCHANGED <<folder_exists, dest, app, cache, held, clear>>
            /\ UNCHANGED <<lockVars, storeVars, lockObjects, extractCalls>>
       ELSE StoreWrite(EmbedEntry(d), doc)

\* JSONStoreDisk.read() on a store made for the entry.
StoreRead(e) ==
    /\ Open
    /\ cache' = IF BadFormat(cache[e]) THEN [cache EXCEPT ![e] = Absent] ELSE cache
    /\ outcome' = IF BadFormat(cache[e]) \/ ReadFails(cache[e])
                     THEN Outcome("read", e, "none", <<>>)
                     ELSE Outcome("read", e, "value", Loads(cache[e].text))
    /\ UNCHANGED <<folder_exists, dest, app, held, clear>>
    /\ UNCHANGED <<lockVars, storeVars, lockObjects, extractCalls>>

\* JSONStoreDisk.exists() on a store made for the entry.
StoreExists(e) ==
    /\ Open
    /\ outcome' = Outcome("exists", e, IF cache[e].kind # "absent" THEN "true" ELSE "false", <<>>)
    /\ UNCHANGED <<folder_exists, dest, app, cache, held, clear>>
    /\ UNCHANGED <<lockVars, storeVars, lockObjects, extractCalls>>

\* safe_delete(self.lock.path): the folder and all below it are gone; a
\* folder that is not there is left at that.
SafeDelete ==
    /\ folder_exists' = FALSE
    /\ cache' = [e \in Entries |-> Absent]
    /\ dest' = [k \in Keys |-> "absent"]

\* Faulty variant: TempAppData inherits reset.
ResetDeletes_Always(cls) == TRUE
\* AppDataDiskFolder.reset calls safe_delete; TempAppData.reset does nothing.
ResetDeletes(cls) == cls = "AppDataDiskFolder"
\* Faulty variant: TempAppData inherits close.
CloseDeletes_Never(cls) == FALSE
\* TempAppData.close calls safe_delete; AppDataDiskFolder.close does nothing.
CloseDeletes(cls) == cls = "TempAppData"

\* reset()
Reset ==
    /\ Open
    /\ IF ResetDeletes(app) THEN SafeDelete ELSE UNCHANGED <<folder_exists, cache, dest>>
    /\ outcome' = Outcome("reset", FolderLock, "ok", <<>>)
    /\ UNCHANGED <<app, held, clear>>
    /\ UNCHANGED <<lockVars, storeVars, lockObjects, extractCalls>>

\* close()
Close ==
    /\ Open
    /\ IF CloseDeletes(app) THEN SafeDelete ELSE UNCHANGED <<folder_exists, cache, dest>>
    /\ outcome' = Outcome("close", FolderLock, "ok", <<>>)
    /\ UNCHANGED <<app, held, clear>>
    /\ UNCHANGED <<lockVars, storeVars, lockObjects, extractCalls>>

\* What iterdir() finds in the py_info folder, as <<stem, suffix>>: the
\* entries' <key>.json and the lock files in use.
Listing ==
    {<<e, ".json">> : e \in {PyInfoEntry(p) : p \in InterpreterPaths} \cap
                             {f \in Entries : cache[f].kind # "absent"}}
    \cup {<<l, IF l = FolderLock THEN "" ELSE ".lock">> : l \in {m \in LockFiles : held[m] > 0}}

\* py_info_clear: `with py_info_folder:` entered (the folder made, its
\* lock taken), iterdir() called.
ClearEnter ==
    /\ Open
    /\ folder_exists' = TRUE
    /\ held' = [held EXCEPT ![FolderLock] = @ + 1]
    /\ clear' = [at |-> "listed", todo |-> {f \in Listing : f[2] = ".json"}]
    /\ UNCHANGED <<dest, app, cache, outcome>>
    /\ UNCHANGED <<lockVars, storeVars, lockObjects, extractCalls>>

\* py_info_clear: the next file with suffix .json, its lock taken.
ClearLock ==
    /\ clear.at = "listed"
    /\ \E f \in clear.todo :
          /\ held' = [held EXCEPT ![f[1]] = @ + 1]
          /\ clear' = [at |-> "locked", todo |-> clear.todo, file |-> f]
    /\ UNCHANGED <<folder_exists, dest, app, cache, outcome>>
    /\ UNCHANGED <<lockVars, storeVars, lockObjects, extractCalls>>

\* py_info_clear: `if filename.exists(): filename.unlink()`, the lock of
\* the entry released.
ClearUnlink ==
    /\ clear.at = "locked"
    /\ cache' = [cache EXCEPT ![clear.file[1]] = Absent]
    /\ held' = [held EXCEPT ![clear.file[1]] = CountAfterRelease(@)]
    /\ clear' = [at |-> "listed", todo |-> clear.todo \ {clear.file}]
    /\ UNCHANGED <<folder_exists, dest, app, outcome>>
    /\ UNCHANGED <<lockVars, storeVars, lockObjects, extractCalls>>

\* py_info_clear: the loop is over, `with py_info_folder:` ends.
ClearExit ==
    /\ clear.at = "listed"
    /\ clear.todo = {}
    /\ held' = [held EXCEPT ![FolderLock] = CountAfterRelease(@)]
    /\ clear' = NotClearing
    /\ outcome' = Outcome("py_info_clear", FolderLock, "ok", <<>>)
    /\ UNCHANGED <<folder_exists, dest, app, cache>>
    /\ UNCHANGED <<lockVars, storeVars, lockObjects, extractCalls>>

NextAppData ==
    \/ \E p \in InterpreterPaths, doc \in CacheDocs : StoreWrite(PyInfoEntry(p), doc)
    \/ \E d \in Distributions, doc \in CacheDocs : EmbedUpdateLogWrite(d, doc)
    \/ \E e \in Entries : (e[1] = "py_info" \/ ~EmbedUpdateLogRaises(app)) /\ StoreRead(e)
    \/ \E e \in Entries : (e[1] = "py_info" \/ ~EmbedUpdateLogRaises(app)) /\ StoreExists(e)
    \/ Reset
    \/ Close
    \/ ClearEnter
    \/ ClearLock
    \/ ClearUnlink
    \/ ClearExit

SpecAppData == InitAppData /\ [][NextAppData]_vars

\* ------------------------------------------------------------- upload
\* The fourteenth specification: the upload task of the distutils plugin,
\* as its unit tests have it: os.walk gives the artifacts of the
\* distribution folder, every process run returns 0.

\* The distribution folders: up to MaxArtifacts files, one after the other.
ArtifactNames == 1..MaxArtifacts
Distribution ==
    UNION {{a \in [1..n -> ArtifactNames] : \A i, j \in 1..n : i # j => a[i] # a[j]} :
              n \in 1..MaxArtifacts}

\* `-m twine <command> <files>`: one run of run_process_and_wait.
Twine(command, files) == [command |-> command, files |-> files]

\* Faulty variant: one register process that names every artifact.
RegisterRun_All(i) == Twine("register", artifacts)
\* The register process of artifact number i.
RegisterRun(i) == Twine("register", <<artifacts[i]>>)

InitUpload ==
    /\ InitLock
    /\ NoFolder
    /\ NoStore
    /\ NoAppData
    /\ NoView
    /\ artifacts \in Distribution
    /\ register \in BOOLEAN
    /\ uploading = UploadAt("idle", 0)
    /\ runs = <<>>

\* upload(project, logger, reactor) starts: the property is read, the
\* distribution folder walked.
UploadStarts ==
    /\ uploading.at = "idle"
    /\ uploading' = UploadAt("running", IF register THEN 0 ELSE Len(artifacts))
    /\ UNCHANGED <<artifacts, register, runs>>
    /\ UNCHANGED beyondUpload

\* With distutils_upload_register: the next artifact is registered.
TwineRegister ==
    /\ uploading.at = "running"
    /\ uploading.n < Len(artifacts)
    /\ runs' = Append(runs, RegisterRun(uploading.n + 1))
    /\ uploading' = UploadAt("running", uploading.n + 1)
    /\ UNCHANGED <<artifacts, register>>
    /\ UNCHANGED beyondUpload

\* The artifacts are uploaded by one process, and the task ends.
TwineUpload ==
    /\ uploading.at = "running"
    /\ uploading.n = Len(artifacts)
    /\ runs' = Append(runs, Twine("upload", artifacts))
    /\ uploading' = UploadAt("done", uploading.n)
    /\ UNCHANGED <<artifacts, register>>
    /\ UNCHANGED beyondUpload

NextUpload ==
    \/ UploadStarts
    \/ TwineRegister
    \/ TwineUpload

SpecUpload == InitUpload /\ [][NextUpload]_vars

\* ------------------------------------------------------------- nested `with lock:`
\* The fifteenth specification: the threads use the whole-directory scope
\* `with lock:` only, each on its own lock object of the folder; thread 1
\* nests it.
NextNested ==
    \E t \in Threads :
        \/ \E k \in Paths : Enter(t, k)
        \/ LockFileAcquired(t)
        \/ LockFileTimeout(t)
        \/ RetryRelease(t)
        \/ RetryAcquire(t)
        \/ OsWait(t)
        \/ BodyReturns(t)
        \/ BodyRaises(t)
        \/ BodyCatches(t)
        \/ ScopeRelease(t)
        \/ ScopeReleaseNone(t)
        \/ DelLock(t)
        \/ DelLockWaits(t)
        \/ DelLockInner(t)

SpecNested == Init /\ [][NextNested]_vars

\* ------------------------------------------------------------- FileView
\* The sixteenth specification: two FileView objects over one file object
\* opened for reading and writing in binary mode; seek, write and read are
\* called on them in any order.
Bytes == {0, 1}
Min(a, b) == IF a < b THEN a ELSE b
Zeros(n) == [i \in 1..n |-> 0]
ByteStrings(n) == UNION {[1..m -> Bytes] : m \in 0..n}

\* file.read(size) at position `here`: the bytes up to the end of the file.
FileRead(here, size) == SubSeq(content, here + 1, Min(here + size, Len(content)))
\* file.write(data) at position `here`: the bytes replaced, the file
\* lengthened, a gap before `here` filled with zero bytes.
FileWrite(here, data) ==
    [i \in 1..Max(Len(content), here + Len(data)) |->
        IF i > here /\ i <= here + Len(data) THEN data[i - here]
        ELSE IF i <= Len(content) THEN content[i]
        ELSE 0]

\* tell()
Tell(v) == view[v].pos
\* _checkwindow(seek_to, op) does not raise.
CheckWindow(v, seek_to) == view[v].start <= seek_to /\ seek_to <= view[v].end
\* Where the position of the file object is when the view is at _pos.
Here(v) == view[v].start + view[v].pos

\* os.SEEK_SET, os.SEEK_CUR, os.SEEK_END, and a value that is none of them.
Whences == 0..3
\* seek: the offset in the file that the arguments name.
SeekTo(v, offset, whence) ==
    CASE whence = 0 -> offset + view[v].start
      [] whence = 1 -> offset + view[v].start + view[v].pos
      [] whence = 2 -> offset + view[v].end
      [] OTHER -> offset

\* Faulty variant: the size is taken as it is.
ReadSize_Unclamped(v, size) == size
\* read: `size = min(size, self._end - here)`
ReadSize(v, size) == Min(size, view[v].end - Here(v))

InitView ==
    /\ InitLock
    /\ NoFolder
    /\ NoStore
    /\ NoAppData
    /\ NoUpload
    /\ content \in {Zeros(n) : n \in 0..MaxFile}
    /\ position = 0
    /\ view \in [Views -> {FileView(start, size) : start \in 0..MaxStart, size \in 0..MaxSize}]
    /\ returned = Returned("none", 1, "none", <<>>)

\* seek(offset, whence)
ViewSeek(v, offset, whence) ==
    /\ IF whence \notin {0, 1, 2} \/ ~CheckWindow(v, SeekTo(v, offset, whence))
          THEN /\ returned' = Returned("seek", v, "OSError", <<>>)
               /\ UNCHANGED <<content, position, view>>
          ELSE /\ position' = SeekTo(v, offset, whence)
               /\ view' = [view EXCEPT ![v].pos = SeekTo(v, offset, whence) - view[v].start]
               /\ returned' = Returned("seek", v, "none", <<>>)
               /\ UNCHANGED content
    /\ UNCHANGED beyondView

\* write(content)
ViewWrite(v, data) ==
    /\ IF ~CheckWindow(v, Here(v)) \/ ~CheckWindow(v, Here(v) + Len(data))
          THEN /\ returned' = Returned("write", v, "OSError", <<>>)
               /\ UNCHANGED <<content, position, view>>
          ELSE /\ content' = FileWrite(Here(v), data)
               /\ position' = Here(v) + Len(data)
               /\ view' = [view EXCEPT ![v].pos = @ + Len(data)]
               /\ returned' = Returned("write", v, "none", <<>>)
    /\ UNCHANGED beyondView

\* read(size); `assert size >= 0` is its first line.
ViewRead(v, size) ==
    /\ IF size < 0
          THEN /\ returned' = Returned("read", v, "AssertionError", <<>>)
               /\ UNCHANGED <<content, position, view>>
          ELSE IF ~CheckWindow(v, Here(v))
          THEN /\ returned' = Returned("read", v, "OSError", <<>>)
               /\ UNCHANGED <<content, position, view>>
          ELSE /\ position' = Here(v) + Len(FileRead(Here(v), ReadSize(v, size)))
               /\ view' = [view EXCEPT ![v].pos = @ + Len(FileRead(Here(v), ReadSize(v, size)))]
               /\ returned' = Returned("read", v, "none", FileRead(Here(v), ReadSize(v, size)))
               /\ UNCHANGED content
    /\ UNCHANGED beyondView

NextView ==
    \E v \in Views :
        \/ \E offset \in -(MaxSize + 1)..(MaxSize + 1), whence \in Whences :
              ViewSeek(v, offset, whence)
        \/ \E data \in ByteStrings(MaxSize) : ViewWrite(v, data)
        \/ \E size \in -1..(MaxSize + 1) : ViewRead(v, size)

SpecView == InitView /\ [][NextView]_vars

\* ------------------------------------------------------------- reset under lock
\* The seventeenth specification: one thread of each process uses
\* locked(path) and lock_for_key on the cache root, and reset() is called at
\* any moment.
FirstThread(t) == \A u \in ThreadsOf(Proc(t)) : t <= u

\* reset() while scopes are open: safe_delete removes the root with the
\* lock files in it.  It takes no lock and touches no lock object of any
\* process.  The advisory lock of a holder belongs to the file it opened:
\* where an open file can be unlinked, the lock file's name is free again
\* and the holder's lock stays on the file that has no name; where it
\* cannot, the lock file and its lock stay.  D is the lock files that went.
ResetUnlinks ==
    /\ ResetDeletes(app)
    /\ SafeDelete
    /\ \E D \in SUBSET LockPaths :
          os_lock' = [k \in LockPaths |-> IF k \in D THEN Free ELSE os_lock[k]]
    /\ outcome' = Outcome("reset", FolderLock, "ok", <<>>)
    /\ UNCHANGED <<lock_store, store_lock, count, lock_file, thread_safe,
                   self_lock, pc, stack, exc, released, last>>
    /\ UNCHANGED <<lockObjects, storeVars, extracted, yielded, step, app,
                   held, clear, uploadVars, viewVars>>

NextReset ==
    \/ \E t \in {u \in Threads : FirstThread(u)} :
          \/ \E k \in Paths, nb \in BOOLEAN : LockForKey(t, k, nb)
          \/ \E k \in Paths : Locked(t, k)
          \/ LockFileAcquired(t)
          \/ LockFileTimeout(t)
          \/ RetryRelease(t)
          \/ RetryAcquire(t)
          \/ OsWait(t)
          \/ BodyReturns(t)
          \/ BodyRaises(t)
          \/ BodyCatches(t)
          \/ ScopeRelease(t)
          \/ DelLock(t)
    \/ ResetUnlinks

SpecReset == Init /\ [][NextReset]_vars

\* ------------------------------------------------------------- py_info_clear under load
\* The eighteenth specification: every thread makes one call, either
\* py_info_clear() or a read-modify-write of the py_info entry under
\* store.locked(); the entry has its file or not when they start.
EntryKey == CHOOSE k \in Paths : \A j \in Paths : k <= j
\* The call under way in thread t.
Clearing(t) == stack[t] # <<>> /\ stack[t][1].kind = "with"
Updating(t) == stack[t] # <<>> /\ stack[t][1].kind = "key"

InitClear ==
    /\ InitLock
    /\ NoUpload
    /\ NoView
    /\ NoFolder
    /\ NoAppData
    /\ file \in {Absent, JsonFile(Dumps(CounterDoc(0)))}
    /\ doing = [t \in Threads |-> "idle"]
    /\ writing = [t \in Threads |-> <<>>]
    /\ result = [t \in Threads |-> NoResult]

\* py_info_clear: `for filename in py_info_folder.path.iterdir()`, the
\* files with suffix .json picked; the lock files end in .lock.
Iterdir(t) ==
    /\ doing[t] = "idle"
    /\ result' = [result EXCEPT ![t] =
                     Result("iterdir", IF ExistsValue THEN "json" ELSE "none", <<>>, <<>>)]
    /\ UNCHANGED <<file, doing, writing>>
    /\ UNCHANGED beyondStore

\* py_info_clear: `with py_info_folder.lock_for_key(filename.stem):` inside
\* the scope of the folder, up to `lock = self._create_lock(name)`.
LockForStem(t, k) ==
    /\ pc[t] = "body"
    /\ exc[t] = "none"
    /\ CreateLock(Proc(t), k)
    /\ count' = [count EXCEPT ![Proc(t)] = CreatedCount(Proc(t), k)]
    /\ stack' = Push(t, Frame("key", k, CreatedLock(Proc(t), k), FALSE))
    /\ pc' = [pc EXCEPT ![t] = "lock_file"]
    /\ UNCHANGED <<store_lock, os_lock, self_lock, exc, released, last>>
    /\ UNCHANGED beyondLock

\* The steps of py_info_clear() after `with py_info_folder:` has begun.
ClearSteps(t) ==
    \/ /\ Clearing(t) /\ Len(stack[t]) = 1 /\ pc[t] = "body" /\ result[t] = NoResult
       /\ Iterdir(t)
    \/ /\ Clearing(t) /\ Len(stack[t]) = 1 /\ result[t] = Result("iterdir", "json", <<>>, <<>>)
       /\ LockForStem(t, EntryKey)
    \/ /\ Clearing(t) /\ Len(stack[t]) = 2 /\ pc[t] = "body" /\ result[t].op = "iterdir"
       /\ Exists(t)
    \/ /\ Clearing(t) /\ Len(stack[t]) = 2 /\ pc[t] = "body"
       /\ result[t] = Result("exists", "true", <<>>, <<>>)
       /\ Remove(t)
    \/ /\ Clearing(t) /\ Len(stack[t]) = 2
       /\ \/ result[t] = Result("exists", "false", <<>>, <<>>)
          \/ result[t] = Result("remove", "ok", <<>>, <<>>)
       /\ BodyReturns(t)
    \/ /\ Clearing(t) /\ Len(stack[t]) = 2
       /\ result[t] = Result("remove", "OSError", <<>>, <<>>)
       /\ BodyRaises(t)
    \/ /\ Clearing(t) /\ Len(stack[t]) = 1 /\ exc[t] # "none"
       /\ BodyRaises(t)
    \/ /\ Clearing(t) /\ Len(stack[t]) = 1
       /\ result[t].op \in {"exists", "remove"} \/ result[t] = Result("iterdir", "none", <<>>, <<>>)
       /\ BodyReturns(t)

\* The steps of `with store.locked(): write(f(read()))` after locked() has
\* begun; a read() that returns None makes f raise.
UpdateSteps(t) ==
    \/ Updating(t) /\ pc[t] = "body" /\ result[t].op = "none" /\ Read(t)
    \/ Updating(t) /\ ReadRemove(t)
    \/ /\ Updating(t) /\ pc[t] = "body"
       /\ result[t].op = "read" /\ result[t].kind = "value"
       /\ Write(t, Incremented(result[t].doc))
    \/ Updating(t) /\ WriteText(t)
    \/ Updating(t) /\ result[t].op = "write" /\ BodyReturns(t)
    \/ Updating(t) /\ result[t].op = "read" /\ result[t].kind = "none" /\ BodyRaises(t)

\* The steps of _lock_file, __exit__ and the finally clauses.
LockSteps(t) ==
    \/ LockFileAcquired(t)
    \/ LockFileTimeout(t)
    \/ RetryRelease(t)
    \/ RetryAcquire(t)
    \/ OsWait(t)
    \/ ScopeRelease(t)
    \/ DelLock(t)
    \/ DelLockWaits(t)
    \/ DelLockInner(t)

NextClear ==
    \E t \in Threads :
        \/ result[t] = NoResult /\ stack[t] = <<>> /\ Enter(t, FolderPath)
        \/ result[t] = NoResult /\ stack[t] = <<>> /\ LockForKey(t, EntryKey, FALSE)
        \/ ClearSteps(t)
        \/ UpdateSteps(t)
        \/ LockSteps(t)

\* A call that has begun goes on whenever it can, again and again (strong
\* fairness: mutexes and the OS lock go to a thread that keeps asking).
FairnessClear ==
    \A t \in Threads : SF_vars(ClearSteps(t) \/ UpdateSteps(t) \/ LockSteps(t))

SpecClear == InitClear /\ [][NextClear]_vars /\ FairnessClear


TypeOK ==
    /\ \A p \in Procs, h \in Handles : count[p][h] \in 0..MaxCount
    /\ \A t \in Threads : Len(stack[t]) <= MaxDepth

\* ============================================================= claims
\* A thread is inside the body of a lock_for_key(k) scope: it has such a
\* scope open whose body runs (an enclosing scope's body runs while an inner
\* one is entered or left).
InKeyScope(t, k) ==
    \E i \in 1..Len(stack[t]) :
        /\ stack[t][i].kind = "key"
        /\ stack[t][i].path = k
        /\ i < Len(stack[t]) \/ pc[t] = "body"

\* No thread of process p has a scope open.
Quiet(p) == \A t \in ThreadsOf(p) : stack[t] = <<>>

\* Process p holds the OS lock of path k through some handle.
HoldsOS(p, k) == os_lock[k] # Free /\ os_lock[k][1] = p

\* C1: for every lock file, at most one process has a thread inside a
\* lock_for_key scope of it, also with two threads of one process sharing
\* the registry handle while another process contends.
C1_CrossProcessExclusion ==
    \A k \in Paths : \A t1, t2 \in Threads :
        InKeyScope(t1, k) /\ InKeyScope(t2, k) => Proc(t1) = Proc(t2)

\* C2: two distinct threads of one process are never inside a
\* lock_for_key scope of the same lock file at the same time.
C2_ThreadsSerialized ==
    \A k \in Paths : \A t1, t2 \in Threads :
        (t1 # t2 /\ Proc(t1) = Proc(t2)) => ~(InKeyScope(t1, k) /\ InKeyScope(t2, k))

\* C3: reentrant counting.  acquire() adds one to the count and leaves the
\* OS lock held; release() takes one off; the OS lock is still held after a
\* release at count >= 2, is released by the release at count 1, and a
\* release at count 0 changes neither the count nor the OS lock.
C3_ReentrantCounting ==
    LET p == Proc(last.t)
        h == last.h
    IN  /\ last.op = "acquire" =>
              count[p][h] = last.before + 1 /\ IsLocked(p, h)
        /\ (last.op = "release" /\ ~last.force) =>
              /\ last.before >= 2 => count[p][h] = last.before - 1 /\ IsLocked(p, h)
              /\ last.before = 1 => count[p][h] = 0 /\ ~IsLocked(p, h)
              /\ last.before = 0 => count[p][h] = 0 /\ (IsLocked(p, h) <=> last.held)

\* C3 witness: the first release() after two acquire() has just run.
C3_Witness ==
    last.op = "release" /\ ~last.force /\ last.before = 2

\* C4: for every handle the OS lock is held by the handle if and only if
\* its count is greater than 0, and the count is never negative.
C4_HeldIffCounted ==
    \A p \in Procs, h \in Handles :
        /\ count[p][h] >= 0
        /\ IsLocked(p, h) <=> count[p][h] > 0

\* C4 witness: a forced release has run on a handle that was acquired
\* twice, while a thread of the other process waits in a blocking acquire.
C4_Witness ==
    /\ last.op = "release" /\ last.force /\ last.before = 2
    /\ \E t \in Threads : Proc(t) # Proc(last.t) /\ pc[t] = "os_wait"

\* C5: release(force=True) at any count n >= 1 releases the OS lock and
\* resets the count to 0 in that one call.
C5_ForceReleasesAll ==
    (last.op = "release" /\ last.force /\ last.before >= 1) =>
        count[Proc(last.t)][last.h] = 0 /\ ~IsLocked(Proc(last.t), last.h)

\* The handles of a lock file that are live in a process: the registry's
\* entry, and the handles of the scopes that have not finished releasing.
Unreleased(t, i) == i < Len(stack[t]) \/ pc[t] \notin {"del_lock", "del_inner"}
HeldHandles(t, k) ==
    {FrameLock(t, stack[t][i]) : i \in {j \in 1..Len(stack[t]) :
                                        stack[t][j].path = k /\ Unreleased(t, j)}}
LiveHandles(p, k) ==
    ({lock_store[p][k]} \cup UNION {HeldHandles(t, k) : t \in ThreadsOf(p)}) \ {NoLock}

\* The handle objects of a lock file that process p still references.
ObjectsOf(p, k) == {h \in Referenced(p) \ {NoLock} : lock_file[p][h] = k}

\* C6: while no thread of the process has released on a lock file, all
\* threads that called _create_lock for it hold the same handle object, and
\* that object is the only one constructed for the file (no object is
\* dropped before a release, so the objects constructed are the ones still
\* referenced).
C6_RegistryDedup ==
    \A p \in Procs, k \in Paths : ~released[p][k] =>
        /\ Cardinality(LiveHandles(p, k)) <= 1
        /\ Cardinality(ObjectsOf(p, k)) <= 1

\* C6 witness: two threads of one process are past _create_lock for the same
\* lock file, one of them after a timed-out try, and hold the registry's
\* object; nothing has been released on the file.
C6_Witness ==
    \E t1, t2 \in Threads : \E k \in Paths :
        /\ t1 # t2 /\ Proc(t1) = Proc(t2) /\ ~released[Proc(t1)][k]
        /\ pc[t1] = "lock_file" /\ pc[t2] = "retry_release"
        /\ Top(t1).path = k /\ Top(t2).path = k
        /\ TopLock(t1) = lock_store[Proc(t1)][k]
        /\ TopLock(t2) = lock_store[Proc(t1)][k]

\* C7: within a process at most one live handle exists per lock file,
\* counting the registry's entry and the handles threads hold.
C7_OneHandlePerPath ==
    \A p \in Procs, k \in Paths : Cardinality(LiveHandles(p, k)) <= 1

\* C8: once every scope opened in the process has been exited, the
\* registry of the process has no entry.
C8_NoLeakedEntries ==
    \A p \in Procs : Quiet(p) => \A k \in Paths : lock_store[p][k] = NoLock

\* C9: a registry entry is removed only when the count of its handle is 0
\* and no other thread holds that handle from _create_lock unreleased.
C9_DelLockOnlyUnused ==
    [][\A p \in Procs, k \in Paths :
          (lock_store[p][k] # NoLock /\ lock_store'[p][k] = NoLock) =>
              /\ count[p][lock_store[p][k]] = 0
              /\ \A t \in ThreadsOf(p) :
                    pc'[t] = pc[t] => lock_store[p][k] \notin HeldHandles(t, k)]_vars

\* C10: when an error leaves the outermost open scope of a process, the
\* process does not hold the OS lock of that scope's lock file afterwards.
C10_ReleasedOnError ==
    [][\A t \in Threads :
          (/\ Len(stack[t]) = 1 /\ stack'[t] = <<>>
           /\ exc[t] = "Error"
           /\ \A u \in ThreadsOf(Proc(t)) \ {t} : stack[u] = <<>>)
          => \/ os_lock'[stack[t][1].path] = Free
             \/ os_lock'[stack[t][1].path][1] # Proc(t)]_vars

\* Thread t has the only open scope: every other holder of a lock of the
\* folder has left its scope.
NoOtherScope(t) ==
    /\ Len(stack[t]) = 1
    /\ \A u \in Threads \ {t} : stack[u] = <<>>

\* C11: a caller of blocking lock_for_key does not wait for ever once the
\* holders of the lock have left their scopes: no thread stays in the
\* blocking acquire for ever while, for ever, no other scope is open.
C11_BlockingEnters ==
    \A t \in Threads : []<>~(pc[t] = "os_wait" /\ NoOtherScope(t))

\* Another process than thread t's holds the OS lock of path k.
HeldElsewhere(t, k) == os_lock[k] # Free /\ os_lock[k][1] # Proc(t)

C13_StoreLockFreeWhileBlocked ==
    \A t \in Threads :
        pc[t] = "os_wait" => store_lock[Proc(t)] = NoThread

\* C14: every operation of NoOpFileLock is a pass-through: a step of a
\* thread working with a NoOpFileLock (whole-directory scope, lock_for_key,
\* non_reentrant_lock_for_key) raises nothing of its own and changes neither
\* a registry, nor a handle, nor an OS lock.
C14_NoOpPassThrough ==
    [][\A t \in Threads :
          (UsesNoOp(t) /\ <<pc[t], stack[t], exc[t]>> # <<pc'[t], stack'[t], exc'[t]>>)
          => /\ exc'[t] # "NotImplementedError"
             /\ UNCHANGED <<lock_store, store_lock, count, lock_file,
                            thread_safe, os_lock>>]_vars

\* C15: the lock objects of one folder give every key the same handle: two
\* open scopes of the thread for one key work on one handle, the inner one
\* was entered without blocking, and the handle keeps the OS lock of the
\* key's lock file until the outermost of them has ended.
C15_SameFolderSameHandle ==
    /\ at # "os_wait"
    /\ \A i, j \in 1..Len(scopes) :
          scopes[i].key = scopes[j].key => scopes[i].lock = scopes[j].lock
    /\ \A i \in 1..Len(scopes) : file_lock[scopes[i].key] = scopes[i].lock

\* A mapping that is a JSON object as it stands: every key a str, no tuple
\* among the values.
Plain(doc) ==
    \A i \in 1..Len(doc) : doc[i][1][1] = "str" /\ doc[i][2][1] # "tuple"

\* C16 (amended): for a mapping with str keys and no tuple values, after
\* write(doc) the next call of the thread, with nothing in between, finds:
\* read() returns a value equal to doc; exists() is True; write of an equal
\* document leaves the same text in the file.
C16_RoundTrip ==
    [][\A t \in Threads :
          (result[t].op = "write" /\ result[t].kind = "ok" /\ Plain(result[t].doc))
          => /\ Read(t) => /\ result'[t].kind = "value"
                           /\ DictEq(result'[t].doc, result[t].doc)
             /\ Exists(t) => result'[t].kind = "true"
             /\ (WriteText(t) /\ DictEq(writing[t], result[t].doc))
                   => result'[t].text = result[t].text /\ file'.text = result[t].text]_vars

\* C16 witness: read() has returned a document of two items that a write
\* put in the file.
C16_Witness ==
    \E t \in Threads :
        /\ result[t].op = "read" /\ result[t].kind = "value"
        /\ Len(result[t].doc) = 2 /\ Plain(result[t].doc)
        /\ file.kind = "json" /\ DictEq(Loads(file.text), result[t].doc)

\* C16 as stated: for every mapping json.dumps accepts, write(doc) returns
\* and the read() that follows returns a value equal to doc.
C16_RoundTripAny ==
    [][\A t \in Threads :
          (result[t].op = "write" /\ Read(t))
          => /\ result[t].kind = "ok"
             /\ result'[t].kind = "value"
             /\ DictEq(result'[t].doc, result[t].doc)]_vars

\* C17: read() of an entry whose file is no JSON goes on to the removal,
\* returns None without raising and leaves the file absent, also when the
\* file was deleted by another caller after the failed parse.
C17_SelfHeal ==
    [][\A t \in Threads :
          /\ (Read(t) /\ file.kind \in {"empty", "garbled"})
                => doing'[t] = "remove" /\ result'[t] = result[t]
          /\ ReadRemove(t)
                => /\ result'[t] = Result("read", "none", <<>>, <<>>)
                   /\ file'.kind = "absent"
                   /\ doing'[t] = "idle"]_vars

\* C17 witness: a read() has failed to parse and is about to remove the
\* file, which another caller's remove() has deleted meanwhile.
C17_Witness ==
    \E t, u \in Threads :
        /\ t # u /\ doing[t] = "remove" /\ file.kind = "absent"
        /\ result[u] = Result("remove", "ok", <<>>, <<>>)

\* C18: read() of an entry whose file is missing or cannot be read returns
\* None without raising, attempts no removal, and leaves the file as it is.
C18_ReadFailureFrame ==
    [][\A t \in Threads :
          (Read(t) /\ file.kind \in {"absent", "unreadable"})
          => /\ result'[t] = Result("read", "none", <<>>, <<>>)
             /\ doing' = doing
             /\ file' = file]_vars

\* C18 witness: read() has returned None for a file that is there and
\* cannot be read; the file is still there.
C18_Witness ==
    \E t \in Threads :
        /\ result[t] = Result("read", "none", <<>>, <<>>)
        /\ doing[t] = "idle" /\ file.kind = "unreadable"

\* C19: remove() of an entry whose file exists deletes it and returns
\* (exists() is False then); remove() of an entry whose file is absent
\* raises OSError and leaves the disk as it is.
C19_Remove ==
    [][\A t \in Threads :
          /\ Remove(t) =>
                IF file.kind # "absent"
                   THEN /\ file'.kind = "absent"
                        /\ result'[t] = Result("remove", "ok", <<>>, <<>>)
                   ELSE /\ file' = file
                        /\ result'[t] = Result("remove", "OSError", <<>>, <<>>)
          /\ (Exists(t) /\ file.kind = "absent") => result'[t].kind = "false"]_vars

\* C19 witness: of two remove() calls on a file, one has deleted it and the
\* other has raised OSError; the file is absent.
C19_Witness ==
    \E t, u \in Threads :
        /\ result[t] = Result("remove", "ok", <<>>, <<>>)
        /\ result[u] = Result("remove", "OSError", <<>>, <<>>)
        /\ file.kind = "absent"

\* C20: while write() overwrites an entry that holds a document, a read()
\* without lock returns a document, never None, the file is never deleted,
\* and once no call is under way the entry holds a document.
C20_AtomicOverwrite ==
    /\ file.kind # "absent"
    /\ \A t \in Threads : result[t].op = "read" => result[t].kind = "value"
    /\ (\A t \in Threads : doing[t] = "idle") => file.kind = "json"

\* C29: the compensating release of _lock_file, run after the timed-out
\* try, finds the count of the handle at 0 and releases no OS lock.
C29_CompensatingReleaseIdle ==
    [][\A t \in Threads :
          (pc[t] = "retry_release" /\ pc'[t] = "retry_acquire")
          => /\ count[Proc(t)][TopLock(t)] = 0
             /\ os_lock' = os_lock]_vars

\* C30: a thread inside lock_for_key(k) that enters lock_for_key(k) again
\* works on the handle it already holds and does not block.
C30_ReentrantUnderConcurrency ==
    \A t \in Threads : \A i, j \in 1..Len(stack[t]) :
        (/\ i < j
         /\ stack[t][i].kind = "key" /\ stack[t][j].kind = "key"
         /\ stack[t][i].path = stack[t][j].path)
        => /\ stack[t][j].lock = stack[t][i].lock
           /\ pc[t] \notin {"retry_release", "retry_acquire", "os_wait"}

\* Thread t is inside the body of its non_reentrant_lock_for_key scope
\* number i, a scope of path k.
InNonReentrant(t, i, k) ==
    /\ i \in 1..Len(stack[t])
    /\ stack[t][i].kind = "non_reentrant"
    /\ stack[t][i].path = k
    /\ i < Len(stack[t]) \/ pc[t] = "body"

\* C28: a thread inside a non_reentrant_lock_for_key(k) scope holds the OS
\* lock of k through the scope's own handle; while it is inside, no scope
\* on k's lock file is entered by any thread of any process, the holder
\* included; and opening or ending such a scope leaves the registry as it is.
C28_NonReentrant ==
    [][/\ \A t \in Threads : \A i \in 1..Len(stack[t]) :
            InNonReentrant(t, i, stack[t][i].path)
            => os_lock[stack[t][i].path] = <<Proc(t), stack[t][i].lock>>
       /\ \A u \in Threads :
            (pc[u] \in {"lock_file", "retry_acquire", "os_wait"} /\ pc'[u] = "body")
            => ~\E t \in Threads : \E i \in 1..MaxDepth : InNonReentrant(t, i, Top(u).path)
       /\ \A t \in Threads :
            (\/ \E k \in Paths : NonReentrantLockForKey(t, k)
             \/ NonReentrantExit(t))
            => lock_store' = lock_store]_vars

\* C28 witness: a thread is inside a non_reentrant_lock_for_key scope, has
\* opened a nested scope for the same key and waits for itself, and a thread
\* of the other process waits too.
C28_Witness ==
    \E t, u \in Threads : \E k \in Paths :
        /\ Proc(u) # Proc(t)
        /\ InNonReentrant(t, 1, k) /\ Len(stack[t]) = 2 /\ Top(t).path = k
        /\ pc[t] = "os_wait" /\ pc[u] = "os_wait" /\ Top(u).path = k

\* Thread t is inside the body of `with store.locked():`.
InLocked(t) == pc[t] = "body" /\ Top(t).kind = "key"

\* The threads that have written their increment.
Incrementers == {t \in Threads : result[t].op = "write" /\ result[t].kind = "ok"}

\* C21: the bodies of `with store.locked():` never overlap, and once every
\* thread is back the entry holds the number of increments made.
C21_LockedReadModifyWrite ==
    /\ \A t, u \in Threads : t # u => ~(InLocked(t) /\ InLocked(u))
    /\ (\A t \in Threads : pc[t] = "idle" /\ stack[t] = <<>> /\ doing[t] = "idle")
       => file = JsonFile(Dumps(CounterDoc(Cardinality(Incrementers))))

\* The thread has made two extract() calls with the same arguments, one
\* after the other, and both are over.
CalledTwice ==
    /\ Len(yielded[1]) = 2
    /\ step[1].at = "idle"
    /\ yielded[1][1].to_folder = yielded[1][2].to_folder
    /\ yielded[1][1].archive = yielded[1][2].archive

\* C22: of two extract() calls in sequence with the same arguments, the
\* first runs the extraction routine and the second does not; both yield
\* the same destination path, and the lock of the archive is free after.
C22_ExtractOnce ==
    CalledTwice
    => /\ yielded[1][1].ran /\ ~yielded[1][2].ran
       /\ extracted[yielded[1][1].archive] = 1
       /\ yielded[1][2].dest = yielded[1][1].dest
       /\ file_lock[yielded[1][1].archive] = NoLock
       /\ \A h \in Handles : named_count[h] = 0

\* C23: over all concurrent extract() calls for one archive the extraction
\* routine runs at most once, and a destination is yielded complete.
C23_ExtractSerialized ==
    /\ \A k \in Paths : extracted[k] <= 1
    /\ \A t \in Threads : \A i \in 1..Len(yielded[t]) : yielded[t][i].found = "complete"

\* C24: AppDataDiskFolder.reset() leaves no cache root and no entry, also
\* when there was no root before, and does not fail; a write after it makes
\* its entry again; TempAppData.reset() changes nothing on disk.
C24_Reset ==
    [][/\ Reset
          => /\ outcome'.kind = "ok"
             /\ IF app = "AppDataDiskFolder"
                   THEN /\ ~folder_exists'
                        /\ \A e \in Entries : cache'[e].kind = "absent"
                   ELSE /\ folder_exists' = folder_exists
                        /\ cache' = cache
                        /\ dest' = dest
       /\ (outcome.op = "reset" /\ outcome'.op = "write" /\ outcome'.kind = "ok")
          => /\ folder_exists'
             /\ cache'[outcome'.entry].kind = "json"]_vars

\* C24 witness: reset() has run on an AppDataDiskFolder, and has run on a
\* TempAppData that holds an entry.
C24_Witness ==
    /\ outcome.op = "reset"
    /\ \/ app = "AppDataDiskFolder"
       \/ app = "TempAppData" /\ \E e \in Entries : cache[e].kind = "json"

\* C25: TempAppData is transient and cannot update, and no class is
\* transient and able to update; embed_update_log on a TempAppData raises
\* NotImplementedError and leaves the disk as it is; TempAppData.close()
\* removes the folder with all below it, AppDataDiskFolder.close() nothing.
C25_Ephemeral ==
    [][/\ app = "TempAppData" => Transient(app) /\ ~CanUpdate(app)
       /\ \A cls \in AppClasses : Transient(cls) => ~CanUpdate(cls)
       /\ (app = "TempAppData" /\ \E d \in Distributions, doc \in CacheDocs :
                                      EmbedUpdateLogWrite(d, doc))
          => /\ outcome'.kind = "NotImplementedError"
             /\ folder_exists' = folder_exists
             /\ cache' = cache
       /\ Close
          => IF app = "TempAppData"
                THEN /\ ~folder_exists'
                     /\ \A e \in Entries : cache'[e].kind = "absent"
                ELSE /\ folder_exists' = folder_exists
                     /\ cache' = cache
                     /\ dest' = dest]_vars

\* C25 witness: close() has run on a TempAppData.
C25_Witness == outcome.op = "close" /\ app = "TempAppData" /\ ~folder_exists

\* What C26 says of the calls other than the round trip: a write to the
\* entry of one interpreter path leaves the entries of the others alone;
\* py_info_clear leaves no py_info entry and no lock held, and no step of
\* it changes an entry outside the py_info folder.
PyInfoKept ==
    /\ \A p, q \in InterpreterPaths : p # q => PyInfoEntry(p) # PyInfoEntry(q)
    /\ \A p \in InterpreterPaths :
          (\E doc \in CacheDocs : StoreWrite(PyInfoEntry(p), doc))
          => \A q \in InterpreterPaths \ {p} :
                cache'[<<"py_info", <<"sha256", q>>>>] = cache[<<"py_info", <<"sha256", q>>>>]
    /\ ClearExit
       => /\ \A e \in Entries : e[1] = "py_info" => cache'[e].kind = "absent"
          /\ \A l \in LockFiles : held'[l] = 0
    /\ (ClearEnter \/ ClearLock \/ ClearUnlink \/ ClearExit)
       => \A e \in Entries : e[1] # "py_info" => cache'[e] = cache[e]

\* C26, for documents with string keys and no tuples: read() on a new
\* py_info(p) after py_info(p).write(d) returns d; and the rest of C26.
C26_PyInfoCache ==
    [][/\ PyInfoKept
       /\ \A p \in InterpreterPaths :
             (/\ outcome.op = "write" /\ outcome.kind = "ok"
              /\ outcome.entry = PyInfoEntry(p)
              /\ Plain(outcome.doc)
              /\ StoreRead(PyInfoEntry(p)))
             => outcome'.kind = "value" /\ DictEq(outcome'.doc, outcome.doc)]_vars

\* C26 as stated, for every document that write() takes.
C26_PyInfoCacheAny ==
    [][/\ PyInfoKept
       /\ \A p \in InterpreterPaths :
             (/\ outcome.op = "write" /\ outcome.kind = "ok"
              /\ outcome.entry = PyInfoEntry(p)
              /\ StoreRead(PyInfoEntry(p)))
             => outcome'.kind = "value" /\ DictEq(outcome'.doc, outcome.doc)]_vars

\* C26 witness: py_info_clear() has returned on a cache that holds an
\* embed update log.
C26_Witness ==
    /\ outcome.op = "py_info_clear"
    /\ \E d \in Distributions : cache[EmbedEntry(d)].kind = "json"

\* The processes the task is to run: with the register option a register
\* process per artifact, in the artifacts' order; then one upload process
\* with every artifact.
ExpectedRuns ==
    (IF register
        THEN [i \in 1..Len(artifacts) |-> Twine("register", <<artifacts[i]>>)]
        ELSE <<>>)
    \o <<Twine("upload", artifacts)>>

\* C27: at every moment the processes run so far are the first of the
\* expected ones, in their order, and when the task is over all of them
\* have run.
C27_RegisterThenUpload ==
    /\ Len(runs) <= Len(ExpectedRuns)
    /\ runs = SubSeq(ExpectedRuns, 1, Len(runs))
    /\ uploading.at = "done" => runs = ExpectedRuns

\* C27 witness: the task is over, with the register option and more than
\* one artifact.
C27_Witness == uploading.at = "done" /\ register /\ Len(artifacts) > 1

\* C32: no __exit__ of a `with lock:` scope raises, and when every thread
\* has left its scopes every count is 0, every OS lock free and the
\* registry empty.
C32_NestedWith ==
    /\ \A t \in Threads : exc[t] # "AttributeError"
    /\ (\A t \in Threads : pc[t] = "idle" /\ stack[t] = <<>>)
       => /\ \A p \in Procs, h \in Handles : count[p][h] = 0
          /\ \A k \in Paths : os_lock[k] = Free
          /\ \A p \in Procs, k \in Paths : lock_store[p][k] = NoLock

\* C35: the position of every view stays inside its window; a seek or a
\* write that names an offset outside the window raises OSError and
\* changes no view and no byte; a read returns bytes of the window only;
\* and a call on one view leaves the position of every other view alone.
C35_FileViewWindow ==
    [][/\ \A v \in Views : 0 <= view'[v].pos /\ view'[v].pos <= view'[v].end - view'[v].start
       /\ \A v \in Views :
             /\ (returned'.op = "seek" /\ returned'.v = v)
                => \A offset \in -(MaxSize + 1)..(MaxSize + 1), whence \in {0, 1, 2} :
                      (/\ \/ SeekTo(v, offset, whence) < view[v].start
                          \/ SeekTo(v, offset, whence) > view[v].end
                       /\ ViewSeek(v, offset, whence))
                      => returned'.raised = "OSError" /\ view' = view /\ content' = content
             /\ (returned'.op = "write" /\ returned'.v = v)
                => \A data \in ByteStrings(MaxSize) :
                      (Here(v) + Len(data) > view[v].end /\ ViewWrite(v, data))
                      => returned'.raised = "OSError" /\ view' = view /\ content' = content
             /\ (returned'.op = "read" /\ returned'.v = v)
                => /\ Len(returned'.data) <= view[v].end - Here(v)
                   /\ returned'.data = SubSeq(content, Here(v) + 1, Here(v) + Len(returned'.data))
             /\ returned'.v = v => \A u \in Views \ {v} : view'[u] = view[u]]_vars

\* C35 witness: a read has stopped at the end of its window, before the
\* end of the file, while the other view is elsewhere in the file.
C35_Witness ==
    \E v \in Views :
        /\ returned.op = "read" /\ returned.v = v /\ Len(returned.data) > 0
        /\ Here(v) = view[v].end /\ Len(content) > view[v].end
        /\ \E u \in Views \ {v} : view[u].pos > 0 /\ Here(u) # Here(v)

\* C31: lock_for_key(k, no_block=True) never waits for another holder: when
\* the caller stands at its try, `lock.acquire(0.0001)`, no other thread is
\* inside the handle's thread_safe mutex, so the try returns or raises
\* Timeout at once, even with a sibling blocked in the blocking acquire.
C31_NoBlockNeverWaits ==
    \A t \in Threads :
        (/\ pc[t] = "lock_file"
         /\ Top(t).kind = "key"
         /\ Top(t).no_block)
        => thread_safe[Proc(t)][TopLock(t)] = NoThread

\* C33: reset() does not break mutual exclusion: while a thread of one
\* process is inside a locked()/lock_for_key scope of a lock file, no
\* thread of another process is inside a scope of the same lock file,
\* whenever reset() is called.
C33_ResetKeepsExclusion ==
    \A k \in Paths : \A t \in Threads :
        InKeyScope(t, k)
        => \A u \in Threads : Proc(u) # Proc(t) => ~InKeyScope(u, k)

\* Every call has ended.
AllEnded == \A t \in Threads : stack[t] = <<>> /\ pc[t] = "idle"

====
